---------------------------- MODULE Spec2Model ----------------------------
(***************************************************************************)
(* A model of teeline, a solver family for the symmetric Euclidean TSP.    *)
(*                                                                         *)
(* Rust vectors are modelled as TLA+ sequences; the code's 0-based index i *)
(* is element i+1 of the sequence (operator At).  f32 values are modelled  *)
(* by integers: the inputs are drawn from a grid on which every pairwise   *)
(* Euclidean distance is a whole number, so every sum and comparison the   *)
(* code makes is exact in f32 and the integer computation is the f32 one.  *)
(***************************************************************************)
EXTENDS Integers, Sequences, FiniteSets, TLC

VARIABLES
    cities,     \* the input point list handed to a solver / to from_cities
    pc,         \* position of the running operation
    dm,         \* the DistanceMatrix built from cities (distance_matrix.rs)
    call,       \* last call made on the matrix: [op, args, ret]
    solution,   \* the Solution a solver returns (mod.rs)
    opt,        \* bellman_karp: the DP table opt[city_pos][selected_set]
    best_val,   \* bellman_karp: best tour value found by solve
    route_vec,  \* bellman_karp: the route read back from the table
    cur_path,   \* the path a solver works on (open_path, path)
    locals,     \* the loop variables of the running solver
    options,    \* the SolverOptions of the run
    best_sol,   \* the best route a solver holds and its distance
    tree,       \* the KDTree built from cities (kdtree.rs)
    nearest_result, \* the NearestResult a kd-tree query returns (kdtree.rs)
    acc_result,  \* a NearestResult accumulator (mod.rs)
    chan,       \* the messages in the progress channel, oldest first (main.rs)
    sent,       \* every message sent on the channel so far, in order
    received,   \* every message the observer took from the channel, in order
    solver_pc,  \* position of the solver thread (main.rs)
    observer_pc \* position of the observer thread (progress.rs)

dmVars == <<dm, call>>
bhkVars == <<opt, best_val, route_vec>>
kdVars == <<tree, nearest_result, acc_result>>
progVars == <<chan, sent, received, solver_pc, observer_pc>>
auxVars == <<kdVars, progVars>>

vars == <<cities, pc, dmVars, solution, bhkVars, cur_path, best_sol, locals, options, auxVars>>

\* the variables each specification leaves alone
idleDM == <<solution, bhkVars, cur_path, best_sol, locals, options, auxVars>>
idleBHK == <<call, cur_path, best_sol, locals, options, auxVars>>
idleBB == <<call, bhkVars, locals, options, auxVars>>
idleTwoOpt == <<dmVars, bhkVars, best_sol, options, auxVars>>
idleHeur == <<call, bhkVars, auxVars>>

\* values of the variables a specification does not use
NoDm == [kind |-> "None"]
NoCall == [op |-> "none"]
NoSolution == [kind |-> "None"]
CallIdle == call = NoCall
SolutionIdle == solution = NoSolution
BhkIdle == opt = <<>> /\ best_val = 0 /\ route_vec = <<>>
NoBest == [route |-> <<>>, distance |-> 0]
NoLocals == [solver |-> "none"]
NoOptions == [kind |-> "None"]
PathIdle == cur_path = <<>> /\ best_sol = NoBest /\ locals = NoLocals /\ options = NoOptions
NoTree == [kind |-> "None"]
NoResult == [kind |-> "None"]
KdIdle == tree = NoTree /\ nearest_result = NoResult /\ acc_result = NoResult
ProgIdle == chan = <<>> /\ sent = <<>> /\ received = <<>> /\ solver_pc = "none" /\ observer_pc = "none"
AuxIdle == KdIdle /\ ProgIdle

---------------------------------------------------------------------------
(* Bounds of the model *)

\* largest number of cities handed to the distance matrix
DmMaxN == 3
\* longest route handed to tour_length / Solution::new
MaxRouteLen == 3
\* largest inputs of the exact solvers and of two_opt
ExactMaxN == 4
TwoOptMaxN == 4
\* largest inputs of the heuristic solvers: nearest_neighbor,
\* simulated_annealing and tabu_search; stochastic_hill, whose restarts
\* draw every order of the route; genetic_algorithm, whose population
\* grows with the input
HeurMaxN == 4
HillMaxN == 3
GaMaxN == 2
\* largest options.epochs of a heuristic run
HeurMaxEpochs == 1
\* stochastic_hill's restart and stop thresholds MAX_STALE and MAX_EPOCH,
\* scaled down from 10_000 and 5_000_000
MAX_STALE == 0
MAX_EPOCH == 1
\* largest point list handed to build_tree, largest number n of nearest
\* items asked for, and most insertions made into one accumulator
KdMaxN == 3
KdMaxK == 2
KdMaxAdds == 2
\* longest parents handed to ordered_crossover_genes and longest route
\* handed to random_successor
XoMaxN == 4
RouteMaxN == 4
ProgMaxN == 3
ProgMaxPasses == 2
ProgMaxEpochs == 2

\* longest file handed to the reader, in lines
RdMaxLines == 4

\* solve_ga on its own: most cities, most generations, and most pairs of
\* children bred in one generation
GaSoloMaxN == 4
GaSoloMaxEpochs == 1
GaMaxBreeds == 1

\* largest capacity of a tabu list on its own and most adds made to it
TabuMaxCapacity == 3
TabuMaxAdds == 4

---------------------------------------------------------------------------
(* Generic helpers *)

At(v, i) == v[i + 1]

InRange(v, i) == i >= 0 /\ i < Len(v)

Max(a, b) == IF a >= b THEN a ELSE b

Min(a, b) == IF a <= b THEN a ELSE b

Abs(a) == IF a >= 0 THEN a ELSE 0 - a

SeqToSet(s) == {s[k] : k \in 1..Len(s)}

RECURSIVE SeqsOfLen(_, _)
SeqsOfLen(S, n) ==
    IF n = 0 THEN {<<>>}
    ELSE {Append(s, x) : s \in SeqsOfLen(S, n - 1), x \in S}

RECURSIVE Perms(_)
\* every ordering of the finite set S, as sequences
Perms(S) ==
    IF S = {} THEN {<<>>}
    ELSE UNION {{<<x>> \o p : p \in Perms(S \ {x})} : x \in S}

IsPermutationOf(route, ids) ==
    /\ Len(route) = Cardinality(ids)
    /\ SeqToSet(route) = ids

\* f32::sqrt on the model's inputs: the argument is a perfect square
Sqrt(n) == CHOOSE r \in 0..n : r * r <= n /\ (r + 1) * (r + 1) > n

\* f32::MAX: above every finite sum of the model's inputs
F32_MAX == 1000000

\* Result<f32, &str> and a panic (an aborted call)
Ok(v) == [kind |-> "Ok", val |-> v]
Err == [kind |-> "Err"]
Panic == [kind |-> "Panic"]

---------------------------------------------------------------------------
(* KDPoint (kdtree.rs) *)

KDPoint(id, coords) == [id |-> id, coords |-> coords]

\* KDPoint::distance: sqrt of the sum of squared coordinate differences
Distance(a, b) ==
    Sqrt((a.coords[1] - b.coords[1]) * (a.coords[1] - b.coords[1])
         + (a.coords[2] - b.coords[2]) * (a.coords[2] - b.coords[2]))

(* Inputs.  Coordinates come from the corners of a 3 x 4 rectangle, whose  *)
(* sides and diagonals (3, 4, 5) are whole numbers; several cities may     *)
(* share one corner.  Ids are distinct but need not be the positions.      *)
Coords == {<<0, 0>>, <<3, 0>>, <<0, 4>>, <<3, 4>>}

IdSeqs(n) ==
    { [p \in 1..n |-> p - 1],        \* build_points: id = row
      [p \in 1..n |-> p],            \* TSPLIB: ids 1..N
      [p \in 1..n |-> n - p],        \* ids 0..N-1, descending
      [p \in 1..n |-> 3 * p + 2] }   \* sparse ids

\* the first city sits on the corner (0, 0): mirroring the rectangle maps
\* every other placement onto one of these and changes no distance
CityInputs(n) ==
    { [p \in 1..n |-> KDPoint(ids[p], cs[p])] :
        ids \in IdSeqs(n), cs \in {c \in SeqsOfLen(Coords, n) : c[1] = <<0, 0>>} }

Ids(cs) == {cs[p].id : p \in 1..Len(cs)}

\* the point with the given id (ids are distinct)
CityById(cs, id) == CHOOSE c \in SeqToSet(cs) : c.id = id

---------------------------------------------------------------------------
(* total_distance and Solution (mod.rs) *)

\* city_table_from_vec: HashMap id -> KDPoint
city_table_from_vec(cs) == [id \in Ids(cs) |-> CityById(cs, id)]

RECURSIVE SumConsecutive(_, _, _)
\* sum over i in 0..last_idx of table[route[i]].distance(table[route[i+1]])
SumConsecutive(table, route, i) ==
    IF i >= Len(route) - 1 THEN 0
    ELSE Distance(table[At(route, i)], table[At(route, i + 1)])
         + SumConsecutive(table, route, i + 1)

\* total_distance: indexing the table with an unknown id panics
total_distance(cs, route) ==
    LET table == city_table_from_vec(cs)
        last_idx == Len(route) - 1
    IN IF Len(route) = 0 \/ \E k \in 1..Len(route) : route[k] \notin DOMAIN table
       THEN Panic
       ELSE Ok(SumConsecutive(table, route, 0)
               + Distance(table[At(route, last_idx)], table[At(route, 0)]))

\* Solution::new followed by update_total
SolutionNew(route, cs) ==
    LET t == total_distance(cs, route)
    IN IF t.kind = "Panic" THEN Panic
       ELSE [kind |-> "Ok", route |-> route, total |-> t.val]

---------------------------------------------------------------------------
(* DistanceMatrix (distance_matrix.rs) *)

RECURSIVE PackedRows(_, _)
\* the pushes of from_cities for rows i..n-1: row i holds d(i,0) .. d(i,i-1)
PackedRows(cs, i) ==
    IF i >= Len(cs) THEN <<>>
    ELSE [j \in 1..i |-> Distance(At(cs, i), At(cs, j - 1))] \o PackedRows(cs, i + 1)

\* DistanceMatrix::from_cities with DistanceMatrix::new
from_cities(cs) ==
    LET n == Len(cs)
        items == PackedRows(cs, 0)
    IN IF n < 2 THEN Err
       ELSE [kind |-> "Ok",
             n |-> n,
             size |-> Len(items),
             items |-> items,
             cities |-> [p \in 0..(n - 1) |-> At(cs, p)],
             city_idx |-> [id \in Ids(cs) |->
                             CHOOSE p \in 0..(n - 1) : At(cs, p).id = id]]

\* a slip: the 1-based padding of the file's header comment
n_items_before_1based(from_city) == (from_city * (from_city + 1)) \div 2

\* the packed index distance_by_pos reads for pos1 # pos2
n_items_before(from_city) == ((from_city - 1) * from_city) \div 2

distance_idx(pos1, pos2) == n_items_before(Max(pos1, pos2)) + Min(pos1, pos2)

\* DistanceMatrix::distance_by_pos; items[distance_idx] out of range panics
distance_by_pos(m, pos1, pos2) ==
    IF pos1 = pos2 THEN Ok(0)
    ELSE IF n_items_before(Max(pos1, pos2)) > m.size THEN Err
    ELSE IF ~InRange(m.items, distance_idx(pos1, pos2)) THEN Panic
    ELSE Ok(At(m.items, distance_idx(pos1, pos2)))

\* DistanceMatrix::distance_between; an id missing from city_idx panics (expect)
distance_between(m, city_id1, city_id2) ==
    IF city_id1 = city_id2 THEN Ok(0)
    ELSE IF city_id1 \notin DOMAIN m.city_idx \/ city_id2 \notin DOMAIN m.city_idx
    THEN Panic
    ELSE distance_by_pos(m, m.city_idx[city_id1], m.city_idx[city_id2])

\* Result::unwrap_or(-1.0); a panic inside the call still aborts
UnwrapOr(r, dflt) == IF r.kind = "Err" THEN Ok(dflt) ELSE r

\* DistanceMatrix::distances_from_index: entries 0..pos-1 come from
\* distance_between(pos, i), entries pos..n-1 from distance_between(i, pos)
distances_from_index(m, pos) ==
    LET entry(i) == IF i < pos THEN UnwrapOr(distance_between(m, pos, i), -1)
                    ELSE UnwrapOr(distance_between(m, i, pos), -1)
    IN IF \E i \in 0..(m.n - 1) : entry(i).kind = "Panic" THEN Panic
       ELSE Ok([k \in 1..m.n |-> entry(k - 1).val])

\* DistanceMatrix::distances_from
distances_from(m, city_id) ==
    IF city_id \notin DOMAIN m.city_idx THEN Panic
    ELSE distances_from_index(m, m.city_idx[city_id])

RECURSIVE TourSteps(_, _, _)
\* results of distance_between(path[i], path[i-1]) for i = k..len-1, in order
TourSteps(m, path, k) ==
    IF k >= Len(path) THEN <<>>
    ELSE <<distance_between(m, At(path, k), At(path, k - 1))>> \o TourSteps(m, path, k + 1)

RECURSIVE SumVals(_)
SumVals(rs) == IF rs = <<>> THEN 0 ELSE Head(rs).val + SumVals(Tail(rs))

\* a slip: the closing edge from the last city back to the first is left out
tour_length_open(m, path) ==
    IF Len(path) < 2 THEN Ok(0)
    ELSE LET steps == TourSteps(m, path, 1)
         IN IF \E k \in 1..Len(steps) : steps[k].kind # "Ok" THEN Panic
            ELSE Ok(SumVals(steps))

\* DistanceMatrix::tour_length; every lookup is unwrapped
tour_length(m, path) ==
    IF Len(path) < 2 THEN Ok(0)
    ELSE LET steps == <<distance_between(m, At(path, Len(path) - 1), At(path, 0))>>
                      \o TourSteps(m, path, 1)
         IN IF \E k \in 1..Len(steps) : steps[k].kind # "Ok" THEN Panic
            ELSE Ok(SumVals(steps))

\* pos2city_id / city_id2pos
pos2city_id(m, pos) == IF pos \in DOMAIN m.cities THEN m.cities[pos].id ELSE -1

---------------------------------------------------------------------------
(* KD-tree (kdtree.rs)                                                     *)
(*                                                                         *)
(* cmp_by_coord calls two coordinates Equal when they differ by less than  *)
(* f32::EPSILON, so this section reads the grid in units of half of        *)
(* f32::EPSILON (a coordinate k stands for the f32 value 0.5 + k * 2^-24,  *)
(* on which f32 subtraction, squaring and sqrt of these values are exact). *)
(* Point lists come from the corners of the 3 x 4 rectangle, whose         *)
(* coordinates differ by more than EPSILON, or from a line of points one   *)
(* unit apart.                                                             *)

EPSILON == 2

F32_INFINITY == 2000000

None == [kind |-> "None"]

IsSome(subtree) == subtree.kind # "None"

\* KDPoint::dim
Dim(pt) == Len(pt.coords)

\* KDPoint::get
Get(pt, dimension) == pt.coords[dimension + 1]

cmp_by_coord(self, other, coord) ==
    IF Get(self, coord) < Get(other, coord) THEN "Less"
    ELSE IF Abs(Get(self, coord) - Get(other, coord)) < EPSILON THEN "Equal"
    ELSE "Greater"

split_distance(self, other, coord) == Abs(Get(self, coord) - Get(other, coord))

\* build_points: the id of a point is its row
build_points(rows) == [i \in 1..Len(rows) |-> KDPoint(i - 1, rows[i])]

\* one step of the stable sort_by of partition_points: x, which came later
\* in the input, goes before the first element it is Less than
InsertByCoord(sorted, x, coord) ==
    LET before == {k \in 1..Len(sorted) : cmp_by_coord(x, sorted[k], coord) = "Less"}
        at == IF before = {} THEN Len(sorted) + 1
              ELSE CHOOSE k \in before : \A o \in before : k <= o
    IN SubSeq(sorted, 1, at - 1) \o <<x>> \o SubSeq(sorted, at, Len(sorted))

RECURSIVE SortByCoord(_, _, _)
SortByCoord(sorted, rest, coord) ==
    IF rest = <<>> THEN sorted
    ELSE SortByCoord(InsertByCoord(sorted, Head(rest), coord), Tail(rest), coord)

partition_points(points, depth, k) ==
    IF Len(points) = 1 THEN <<points[1], <<>>, <<>>>>
    ELSE LET coord == depth % k
             sorted_points == SortByCoord(<<>>, points, coord)
             pivot_idx == Len(sorted_points) \div 2
         IN <<At(sorted_points, pivot_idx),
              SubSeq(sorted_points, 1, pivot_idx),
              SubSeq(sorted_points, pivot_idx + 2, Len(sorted_points))>>

\* KDNode::len of a subtree
NodeLen(subtree) == IF IsSome(subtree) THEN subtree.size ELSE 0

leaf(point, depth) ==
    [kind |-> "Node", point |-> point, depth |-> depth, size |-> 1,
     left |-> None, right |-> None]

from_subtrees(point, depth, left, right) ==
    [kind |-> "Node", point |-> point, depth |-> depth,
     size |-> 1 + NodeLen(left) + NodeLen(right), left |-> left, right |-> right]

RECURSIVE build_subtree(_, _)
build_subtree(points, depth) ==
    IF points = <<>> THEN None
    ELSE IF Len(points) = 1 THEN leaf(points[1], depth)
    ELSE LET parts == partition_points(points, depth, Dim(points[1]))
         IN from_subtrees(parts[1], depth,
                          build_subtree(parts[2], depth + 1),
                          build_subtree(parts[3], depth + 1))

KDTreeEmpty == [kind |-> "Tree", size |-> 0, dimensionality |-> 0, root |-> None]

build_tree(points) ==
    IF points = <<>> THEN KDTreeEmpty
    ELSE [kind |-> "Tree", size |-> Len(points), dimensionality |-> 0,
          root |-> build_subtree(points, 0)]

\* KDTree::walk: the points of a subtree, in order
RECURSIVE walk_in_order(_)
walk_in_order(subtree) ==
    IF IsSome(subtree)
    THEN walk_in_order(subtree.left) \o <<subtree.point>> \o walk_in_order(subtree.right)
    ELSE <<>>

\* kdtree.rs NearestResult: the best point, its distance, and a deque of
\* the points that were best before it (front first)
KdNearestResultNew(point, distance, n) ==
    [kind |-> "Result", point |-> point, distance |-> distance, n |-> n,
     nearest |-> <<>>]

KdNearestResultAdd(r, pt) ==
    IF r.n = 0 THEN r
    ELSE LET kept == IF Len(r.nearest) >= r.n
                     THEN SubSeq(r.nearest, 1, Len(r.nearest) - 1)
                     ELSE r.nearest
         IN [kind |-> "Result", point |-> r.point, distance |-> r.distance,
             n |-> r.n, nearest |-> <<pt>> \o kept]

level_coord(node) == node.depth % Dim(node.point)

RECURSIVE KDNodeNearest(_, _, _)
KDNodeNearest(node, target_point, best_result) ==
    IF NodeLen(node) = 0 THEN best_result
    ELSE
      LET distance_from_target == Distance(node.point, target_point)
          updated ==
              IF distance_from_target <= best_result.distance
              THEN KdNearestResultAdd(
                       [kind |-> "Result", point |-> node.point,
                        distance |-> distance_from_target, n |-> best_result.n,
                        nearest |-> best_result.nearest],
                       best_result.point)
              ELSE best_result
          ord == cmp_by_coord(node.point, target_point, level_coord(node))
          closest_branch == IF ord = "Greater" THEN node.left ELSE node.right
          futher_branch == IF ord = "Greater" THEN node.right ELSE node.left
          after_closest ==
              IF IsSome(closest_branch)
              THEN KDNodeNearest(closest_branch, target_point, updated)
              ELSE updated
          split_dist == split_distance(node.point, target_point, level_coord(node))
      IN IF after_closest.distance > split_dist /\ IsSome(futher_branch)
         THEN KDNodeNearest(futher_branch, target_point, after_closest)
         ELSE after_closest

KDTreeNearest(t, target, n) ==
    LET best_result == KdNearestResultNew(target, F32_INFINITY, n)
    IN IF IsSome(t.root) THEN KDNodeNearest(t.root, target, best_result)
       ELSE best_result

---------------------------------------------------------------------------
(* The NearestResult accumulator (mod.rs) *)

NearestResultItem(point, distance) == [distance |-> distance, point |-> point]

NearestResultNew(point, distance, n) ==
    [kind |-> "Result", target |-> point, point |-> point, distance |-> distance,
     n |-> n, results |-> <<>>]

farthest_distance(r) ==
    IF r.results = <<>> THEN F32_MAX ELSE r.results[Len(r.results)].distance

\* one step of the stable sort_by(partial_cmp) of the items
InsertByDistance(sorted, x) ==
    LET before == {k \in 1..Len(sorted) : x.distance < sorted[k].distance}
        at == IF before = {} THEN Len(sorted) + 1
              ELSE CHOOSE k \in before : \A o \in before : k <= o
    IN SubSeq(sorted, 1, at - 1) \o <<x>> \o SubSeq(sorted, at, Len(sorted))

RECURSIVE SortByDistance(_, _)
SortByDistance(sorted, rest) ==
    IF rest = <<>> THEN sorted
    ELSE SortByDistance(InsertByDistance(sorted, Head(rest)), Tail(rest))

NearestResultAdd(r, pt, new_distance) ==
    IF r.n = 0 \/ pt.id = r.target.id THEN r
    ELSE
      LET closer == new_distance < r.distance
          kept == IF Len(r.results) >= r.n
                  THEN SubSeq(r.results, 1, Len(r.results) - 1)
                  ELSE r.results
          results == IF new_distance < farthest_distance(r)
                     THEN SortByDistance(<<>>, Append(kept, NearestResultItem(pt, new_distance)))
                     ELSE r.results
      IN [kind |-> "Result", target |-> r.target,
          point |-> IF closer THEN pt ELSE r.point,
          distance |-> IF closer THEN new_distance ELSE r.distance,
          n |-> r.n, results |-> results]

RECURSIVE NearestLoop(_, _, _, _)
\* the loop of DistanceMatrix::nearest from position pos on: the point is
\* looked up in the position-keyed table under the city id
NearestLoop(m, distances_from_target, pos, search_result) ==
    IF pos >= Len(distances_from_target) THEN search_result
    ELSE LET city_id == pos2city_id(m, pos)
             next == IF city_id \in DOMAIN m.cities
                     THEN NearestResultAdd(search_result, m.cities[city_id],
                                           At(distances_from_target, pos))
                     ELSE search_result
         IN NearestLoop(m, distances_from_target, pos + 1, next)

\* DistanceMatrix::nearest
nearest(m, target, n) ==
    IF target.id \notin DOMAIN m.city_idx THEN Panic
    ELSE LET distances_from_target == distances_from_index(m, m.city_idx[target.id])
         IN IF distances_from_target.kind = "Panic" THEN Panic
            ELSE Ok(NearestLoop(m, distances_from_target.val, 0,
                                NearestResultNew(target, F32_INFINITY, n)))

---------------------------------------------------------------------------
(* Specification SpecDM: a matrix is built and then queried *)

RoutesOver(ids) == UNION {SeqsOfLen(ids, l) : l \in 2..MaxRouteLen}

InitDM ==
    /\ cities \in UNION {CityInputs(n) : n \in 2..DmMaxN}
    /\ pc = "new"
    /\ dm = NoDm
    /\ CallIdle /\ SolutionIdle /\ BhkIdle /\ AuxIdle /\ PathIdle

FromCities ==
    /\ pc = "new"
    /\ dm' = from_cities(cities)
    /\ pc' = "built"
    /\ UNCHANGED <<cities, call, idleDM>>

CallDistanceByPos ==
    /\ pc = "built"
    /\ \E p \in 0..(dm.n + 1), q \in 0..(dm.n + 1) :
          call' = [op |-> "distance_by_pos", args |-> <<p, q>>,
                   ret |-> distance_by_pos(dm, p, q)]
    /\ pc' = "called"
    /\ UNCHANGED <<cities, dm, idleDM>>

CallDistancesFrom ==
    /\ pc = "built"
    /\ \E id \in Ids(cities) :
          call' = [op |-> "distances_from", args |-> <<id>>,
                   ret |-> distances_from(dm, id)]
    /\ pc' = "called"
    /\ UNCHANGED <<cities, dm, idleDM>>

CallSolutionNew ==
    /\ pc = "built"
    /\ \E route \in RoutesOver(Ids(cities)) :
          call' = [op |-> "solution_new", args |-> route,
                   ret |-> SolutionNew(route, cities)]
    /\ pc' = "called"
    /\ UNCHANGED <<cities, dm, idleDM>>

\* dm.nearest(&city, n), as the comparison test calls it
CallNearest ==
    /\ pc = "built"
    /\ \E target \in SeqToSet(cities), n \in 1..KdMaxK :
          call' = [op |-> "nearest", args |-> <<target, n>>,
                   ret |-> nearest(dm, target, n)]
    /\ pc' = "called"
    /\ UNCHANGED <<cities, dm, idleDM>>

\* the call returns; a panic ends the run
Return ==
    /\ pc = "called"
    /\ call.ret.kind # "Panic"
    /\ pc' = "built"
    /\ call' = NoCall
    /\ UNCHANGED <<cities, dm, idleDM>>

NextDM ==
    \/ FromCities
    \/ CallDistanceByPos
    \/ CallDistancesFrom
    \/ CallSolutionNew
    \/ CallNearest
    \/ Return

SpecDM == InitDM /\ [][NextDM]_vars

N == Len(cities)

C8_PackedLookup ==
    /\ pc # "new" =>
          /\ dm.kind = "Ok"
          /\ Len(dm.items) = (N * (N - 1)) \div 2
          /\ dm.size = Len(dm.items)
          /\ \A p, q \in 0..(N - 1) : p < q =>
                /\ distance_idx(p, q) = (q * (q - 1)) \div 2 + p
                /\ distance_idx(q, p) = distance_idx(p, q)
                /\ At(dm.items, distance_idx(p, q)) = Distance(At(cities, p), At(cities, q))
                /\ \A p2, q2 \in 0..(N - 1) :
                      (p2 < q2 /\ distance_idx(p2, q2) = distance_idx(p, q))
                          => (p2 = p /\ q2 = q)
    /\ (pc = "called" /\ call.op = "distance_by_pos"
            /\ call.args[1] < N /\ call.args[2] < N) =>
          call.ret = Ok(Distance(At(cities, call.args[1]), At(cities, call.args[2])))

C8_Witness ==
    /\ pc = "called" /\ call.op = "distance_by_pos"
    /\ N = 3 /\ call.args = <<1, 2>>
    /\ call.ret = Ok(5)

(* C9: with arbitrary distinct ids, distances_from(id) returns a vector of *)
(* length N whose entry p is the distance from the queried point to the    *)
(* point at position p (0 at its own position).                            *)
C9_DistancesFromAnyIds ==
    (pc = "called" /\ call.op = "distances_from") =>
        /\ call.ret.kind = "Ok"
        /\ Len(call.ret.val) = N
        /\ \A p \in 0..(N - 1) :
              At(call.ret.val, p) = Distance(CityById(cities, call.args[1]), At(cities, p))

(* C10: a lookup by positions p # q with max(p, q) > N-1 returns an error  *)
(* result.                                                                 *)
C10_OutOfRangeIsErr ==
    (pc = "called" /\ call.op = "distance_by_pos"
        /\ call.args[1] # call.args[2]
        /\ Max(call.args[1], call.args[2]) > N - 1) =>
        call.ret = Err

\* the smallest distance from the target to a city with another id
MinOtherDistance(cs, target) ==
    LET others == {Distance(q, target) : q \in {c \in SeqToSet(cs) : c.id # target.id}}
    IN CHOOSE d \in others : \A o \in others : d <= o

\* C13: for a target that is one of the cities, DistanceMatrix.nearest
\* reports the closest distance KDTree.nearest reports, which is the smallest
\* distance from the target to another city, and its best point is a city
\* at that distance
C13_MatrixNearestAgreesWithKdTree ==
    (pc = "called" /\ call.op = "nearest") =>
        LET target == call.args[1]
            kd_res == KDTreeNearest(build_tree(cities), target, call.args[2])
        IN /\ call.ret.kind = "Ok"
           /\ call.ret.val.distance = kd_res.distance
           /\ call.ret.val.distance = MinOtherDistance(cities, target)
           /\ call.ret.val.point \in SeqToSet(cities)
           /\ Distance(call.ret.val.point, target) = MinOtherDistance(cities, target)

---------------------------------------------------------------------------
(* Bellman-Held-Karp (bellman_karp.rs) *)

\* the UNKNOWN_DISTANCE sentinel is f32::MAX; an f32 addition to it rounds
\* back to it (FAdd)
UNKNOWN_DISTANCE == F32_MAX

FAdd(a, b) == IF a >= F32_MAX \/ b >= F32_MAX THEN F32_MAX ELSE a + b

\* (x1 - x2).abs() < f32::EPSILON on whole numbers
approx(x1, x2) == Abs(x1 - x2) < 1

\* FlagSet: a u64 used as a bit set
RECURSIVE Pow2(_)
Pow2(k) == IF k = 0 THEN 1 ELSE 2 * Pow2(k - 1)

\* set & (1 << i) # 0
HasBit(set, i) == (set \div Pow2(i)) % 2 = 1

\* set & !(1 << i)
ClearBit(set, i) == IF HasBit(set, i) THEN set - Pow2(i) ELSE set

\* Result::expect / unwrap on a lookup
Expect(r) == r.val

\* solve, lines 27-47: the table with its first subresults
InitTable(m, n_cities) ==
    LET n_others == n_cities - 1
        n_powersets == Pow2(n_others)
        last_pos == n_others
    IN [i \in 0..(n_others - 1) |->
          [s \in 0..(n_powersets - 1) |->
              IF s = Pow2(i)
              THEN UnwrapOr(distance_by_pos(m, i, last_pos), UNKNOWN_DISTANCE).val
              ELSE UNKNOWN_DISTANCE]]

RECURSIVE solve_bhk(_, _, _, _)
RECURSIVE solve_bhk_loop(_, _, _, _, _, _)
\* solve_bhk: the table after the call; the value returned is table[city_pos][selected_set]
solve_bhk(table, m, selected_set, city_pos) ==
    IF table[city_pos][selected_set] < UNKNOWN_DISTANCE THEN table
    ELSE LET rest_selected == ClearBit(selected_set, city_pos)
             r == solve_bhk_loop(table, m, rest_selected, city_pos, 0, F32_MAX)
         IN [r.table EXCEPT ![city_pos][selected_set] = r.best_val]

\* the loop of solve_bhk from index i on
solve_bhk_loop(table, m, rest_selected, city_pos, i, best) ==
    IF i >= Cardinality(DOMAIN table) THEN [table |-> table, best_val |-> best]
    ELSE IF ~HasBit(rest_selected, i)
    THEN solve_bhk_loop(table, m, rest_selected, city_pos, i + 1, best)
    ELSE LET step_dist == Expect(distance_by_pos(m, i, city_pos))
             table2 == solve_bhk(table, m, rest_selected, i)
             sub_val == FAdd(table2[i][rest_selected], step_dist)
         IN solve_bhk_loop(table2, m, rest_selected, city_pos, i + 1,
                           IF sub_val < best THEN sub_val ELSE best)

RECURSIVE SolveAll(_, _, _, _, _)
\* solve, lines 49-59: the loop over the last city of the tour
SolveAll(table, m, n_others, city_pos, best) ==
    IF city_pos >= n_others THEN [table |-> table, best_val |-> best]
    ELSE LET selected_set == Pow2(n_others) - 1
             table2 == solve_bhk(table, m, selected_set, city_pos)
             sub_val == FAdd(table2[city_pos][selected_set],
                             UnwrapOr(distance_by_pos(m, city_pos, n_others),
                                      UNKNOWN_DISTANCE).val)
         IN SolveAll(table2, m, n_others, city_pos + 1,
                     IF sub_val < best THEN sub_val ELSE best)

RECURSIVE ReadRouteFrom(_, _, _, _, _, _, _)
\* read_optimal_route, the loop "for i in 1..n" from index i on
ReadRouteFrom(table, m, n, i, route_ids, unread_set, left_dist) ==
    IF i >= n \/ left_dist <= 0 THEN route_ids
    ELSE LET step_dist(j) == Expect(distance_by_pos(m, j, At(route_ids, i - 1)))
             hit(j) == /\ HasBit(unread_set, j)
                       /\ approx(left_dist, FAdd(table[j][unread_set], step_dist(j)))
             hits == {j \in 0..(n - 2) : hit(j)}
         IN IF hits = {}
            THEN ReadRouteFrom(table, m, n, i + 1, route_ids, unread_set, left_dist)
            ELSE LET j == CHOOSE x \in hits : \A y \in hits : x <= y
                 IN ReadRouteFrom(table, m, n, i + 1,
                                  [route_ids EXCEPT ![i + 1] = j],
                                  ClearBit(unread_set, j),
                                  left_dist - step_dist(j))

\* read_optimal_route
read_optimal_route(table, m, n, best) ==
    LET start == [k \in 1..n |-> IF k = 1 THEN n - 1 ELSE 0]
        route_ids == ReadRouteFrom(table, m, n, 1, start, Pow2(n - 1) - 1, best)
    IN [k \in 1..n |-> pos2city_id(m, route_ids[k])]

(* Specification SpecBHK: bellman_karp::solve, one action per stage *)

InitBHK ==
    /\ cities \in UNION {CityInputs(n) : n \in 2..ExactMaxN}
    /\ pc = "bhk_start"
    /\ dm = NoDm
    /\ CallIdle /\ SolutionIdle /\ BhkIdle /\ AuxIdle /\ PathIdle

\* lines 27-47
BhkInitTable ==
    /\ pc = "bhk_start"
    /\ dm' = from_cities(cities)
    /\ opt' = InitTable(dm', Len(cities))
    /\ pc' = "bhk_table"
    /\ UNCHANGED <<cities, best_val, route_vec, solution, idleBHK>>

\* lines 49-59
BhkSolve ==
    /\ pc = "bhk_table"
    /\ LET r == SolveAll(opt, dm, Len(cities) - 1, 0, F32_MAX)
       IN opt' = r.table /\ best_val' = r.best_val
    /\ pc' = "bhk_solved"
    /\ UNCHANGED <<cities, dm, route_vec, solution, idleBHK>>

\* line 66
BhkReadRoute ==
    /\ pc = "bhk_solved"
    /\ route_vec' = read_optimal_route(opt, dm, Len(cities), best_val)
    /\ pc' = "bhk_route"
    /\ UNCHANGED <<cities, dm, opt, best_val, solution, idleBHK>>

\* lines 73-75
BhkReturn ==
    /\ pc = "bhk_route"
    /\ solution' = SolutionNew(route_vec, cities)
    /\ pc' = "bhk_done"
    /\ UNCHANGED <<cities, dm, bhkVars, idleBHK>>

NextBHK ==
    \/ BhkInitTable
    \/ BhkSolve
    \/ BhkReadRoute
    \/ BhkReturn

SpecBHK == InitBHK /\ [][NextBHK]_vars

RECURSIVE ClosedLength(_, _, _)
\* length of the closed tour over the sequence of points pts, from edge k on
ClosedLength(pts, k, acc) ==
    IF k > Len(pts) THEN acc
    ELSE ClosedLength(pts, k + 1,
                      acc + Distance(pts[k], pts[IF k = Len(pts) THEN 1 ELSE k + 1]))

\* what exhaustive enumeration finds: the least closed-tour length over all
\* orderings of the cities
MinTourLength(cs) ==
    LET lens == {ClosedLength([k \in 1..Len(cs) |-> cs[p[k]]], 1, 0) :
                    p \in Perms(1..Len(cs))}
    IN CHOOSE l \in lens : \A l2 \in lens : l <= l2

(* C1: for 2 <= N <= 10 points bellman_karp::solve returns a Solution whose *)
(* total is the minimum closed-tour length over all orderings.               *)
C1_BhkTotalIsOptimal ==
    pc = "bhk_done" =>
        /\ solution.kind = "Ok"
        /\ solution.total = MinTourLength(cities)

(* C2: for N >= 2 points, coinciding points included, the route read back  *)
(* by read_optimal_route holds every input id exactly once.                *)
C2_BhkRouteIsPermutation ==
    pc \in {"bhk_route", "bhk_done"} => IsPermutationOf(route_vec, Ids(cities))

---------------------------------------------------------------------------
(* Branch and bound (branch_bound.rs) *)

UNVISITED_NODE == 0

RECURSIVE SortAsc(_)
\* the ids of a set in ascending order (Vec::sort)
SortAsc(S) ==
    IF S = {} THEN <<>>
    ELSE LET least == CHOOSE x \in S : \A y \in S : x <= y
         IN <<least>> \o SortAsc(S \ {least})

\* Route::sort: the route by ascending id
RouteSort(route) == SortAsc(SeqToSet(route))

\* build_evaluator: the closure |path| dm.tour_length(path)
evaluate_fn(m, p) == Expect(tour_length(m, p))

is_solution(p, k, n_cities) ==
    /\ k = n_cities
    /\ k > 1
    /\ Cardinality({p[x] : x \in 1..k}) = n_cities

\* construct_candidates: the unvisited ids that pass the pruning test, sorted
construct_candidates(m, p, k, unvisited_cities, running_cost, best_distance) ==
    SortAsc({city_id \in unvisited_cities :
                best_distance > FAdd(running_cost,
                                     evaluate_fn(m, <<At(p, k - 1), city_id>>))})

make_move(p, k, candidate) == [p EXCEPT ![k + 1] = candidate]

undo_move(p, k) == IF k > 0 THEN [p EXCEPT ![k + 1] = UNVISITED_NODE] ELSE p

RECURSIVE backtrack(_, _, _, _, _, _)
RECURSIVE backtrack_loop(_, _, _, _, _, _, _, _)
\* backtrack: the pair (best_path, best_distance) it returns
backtrack(m, p, unvisited_cities, k, running_cost, upper_bound) ==
    LET n_cities == k + Cardinality(unvisited_cities)
        found == is_solution(p, k, n_cities) /\ evaluate_fn(m, p) < upper_bound
        best_path == p
        best_distance == IF found THEN evaluate_fn(m, p) ELSE upper_bound
        candidates == construct_candidates(m, p, k, unvisited_cities,
                                           running_cost, best_distance)
    IN backtrack_loop(m, p, unvisited_cities, k, running_cost, candidates,
                      best_path, best_distance)

\* the loop of backtrack over the candidates still to try
backtrack_loop(m, p, unvisited_cities, k, running_cost, candidates, best_path, best_distance) ==
    IF candidates = <<>> THEN [route |-> best_path, distance |-> best_distance]
    ELSE LET candidate == Head(candidates)
             moved == make_move(p, k, candidate)
             prev_city == At(moved, k - 1)
             next_distance == evaluate_fn(m, <<prev_city, candidate>>)
             sub == backtrack(m, moved, unvisited_cities \ {candidate}, k + 1,
                              FAdd(running_cost, next_distance), best_distance)
             improved == sub.distance < best_distance
         IN backtrack_loop(m, undo_move(moved, k), unvisited_cities, k, running_cost,
                           Tail(candidates),
                           IF improved THEN sub.route ELSE best_path,
                           IF improved THEN sub.distance ELSE best_distance)

(* Specification SpecBB: branch_bound::solve *)

InitBB ==
    /\ cities \in UNION {CityInputs(n) : n \in 2..ExactMaxN}
    /\ pc = "bb_start"
    /\ dm = NoDm
    /\ CallIdle /\ SolutionIdle /\ BhkIdle /\ AuxIdle /\ PathIdle

\* lines 17-29: the sorted route, the open path and the evaluator's matrix
BbPrepare ==
    /\ pc = "bb_start"
    /\ LET route == RouteSort([k \in 1..Len(cities) |-> cities[k].id])
       IN cur_path' = [k \in 1..Len(route) |-> IF k = 1 THEN At(route, 0) ELSE 0]
    /\ dm' = from_cities(cities)
    /\ pc' = "bb_search"
    /\ UNCHANGED <<cities, best_sol, solution, idleBB>>

\* lines 30-38: the call of backtrack
BbBacktrack ==
    /\ pc = "bb_search"
    /\ best_sol' = backtrack(dm, cur_path, Ids(cities) \ {At(cur_path, 0)}, 1, 0, F32_MAX)
    /\ pc' = "bb_found"
    /\ UNCHANGED <<cities, dm, cur_path, solution, idleBB>>

\* line 40
BbReturn ==
    /\ pc = "bb_found"
    /\ solution' = SolutionNew(best_sol.route, cities)
    /\ pc' = "bb_done"
    /\ UNCHANGED <<cities, dm, cur_path, best_sol, idleBB>>

NextBB ==
    \/ BbPrepare
    \/ BbBacktrack
    \/ BbReturn

SpecBB == InitBB /\ [][NextBB]_vars

(* C3: for N >= 2 points branch_bound::solve returns a tour whose length   *)
(* is the minimum over all tours of the input.                             *)
C3_BranchBoundIsOptimal ==
    pc = "bb_done" =>
        /\ solution.kind = "Ok"
        /\ IsPermutationOf(solution.route, Ids(cities))
        /\ solution.total = MinTourLength(cities)

---------------------------------------------------------------------------
(* 2-opt (two_opt.rs) *)

\* usize arithmetic: 64 bits wide in the program; the model keeps a modulus
\* that fits TLC's integers, far above every path length
USIZE_MODULUS == 2^30

WrappingSub(a, b) == (a - b) % USIZE_MODULUS

\* cities_table[&a].distance(&cities_table[&b])
TableDistance(cs, a, b) ==
    Distance(city_table_from_vec(cs)[a], city_table_from_vec(cs)[b])

RECURSIVE Reverse(_)
Reverse(v) == IF v = <<>> THEN <<>> ELSE Reverse(Tail(v)) \o <<Head(v)>>

\* a slip: the segment is taken one position too far to the right
swap_2opt_shifted(p, from, to) ==
    IF from >= to THEN p
    ELSE SubSeq(p, 1, from + 1) \o Reverse(SubSeq(p, from + 2, to + 2))
                                \o SubSeq(p, to + 3, Len(p))

\* swap_2opt: the segment from..=to reversed in place
swap_2opt(p, from, to) ==
    IF from >= to THEN p
    ELSE SubSeq(p, 1, from) \o Reverse(SubSeq(p, from + 1, to + 1))
                            \o SubSeq(p, to + 2, Len(p))

(* Specification SpecTwoOpt: two_opt::solve, one step per loop test.  The  *)
(* subtraction of line 16 is checked in a debug build and wraps in a       *)
(* release build; overflow_checks is the build's choice.                   *)

InitTwoOpt ==
    /\ cities \in UNION {CityInputs(n) : n \in 2..TwoOptMaxN}
    /\ pc = "to_start"
    /\ dm = NoDm
    /\ CallIdle /\ SolutionIdle /\ BhkIdle /\ AuxIdle
    /\ cur_path = <<>> /\ best_sol = NoBest /\ options = NoOptions
    /\ locals \in {[solver |-> "two_opt", overflow_checks |-> b] : b \in BOOLEAN}

\* lines 7-13
ToStart ==
    /\ pc = "to_start"
    /\ cur_path' = [k \in 1..Len(cities) |-> cities[k].id]
    /\ locals' = [solver |-> "two_opt", overflow_checks |-> locals.overflow_checks,
                  n_indices |-> Len(cities) - 1, improved |-> TRUE,
                  upper |-> 0, i |-> 0, j |-> 0]
    /\ pc' = "to_while"
    /\ UNCHANGED <<cities, solution, idleTwoOpt>>

\* lines 14-16: another pass while the last one improved the path
ToWhilePass ==
    /\ pc = "to_while"
    /\ locals.improved
    /\ ~(locals.n_indices < 2 /\ locals.overflow_checks)
    /\ locals' = [locals EXCEPT !.improved = FALSE, !.i = 0,
                                !.upper = WrappingSub(locals.n_indices, 2)]
    /\ pc' = "to_outer"
    /\ UNCHANGED <<cities, cur_path, solution, idleTwoOpt>>

\* line 16: n_indices - 2 overflows in a build with overflow checks
ToWhileOverflow ==
    /\ pc = "to_while"
    /\ locals.improved
    /\ locals.n_indices < 2 /\ locals.overflow_checks
    /\ solution' = Panic
    /\ pc' = "to_panic"
    /\ UNCHANGED <<cities, cur_path, locals, idleTwoOpt>>

\* lines 14, 43-44: no improvement in the last pass
ToReturn ==
    /\ pc = "to_while"
    /\ ~locals.improved
    /\ solution' = SolutionNew(cur_path, cities)
    /\ pc' = "to_done"
    /\ UNCHANGED <<cities, cur_path, locals, idleTwoOpt>>

\* lines 16-19: the next i, reading path[i]
ToOuterStep ==
    /\ pc = "to_outer"
    /\ locals.i < locals.upper
    /\ InRange(cur_path, locals.i)
    /\ locals' = [locals EXCEPT !.j = locals.i + 2]
    /\ pc' = "to_inner"
    /\ UNCHANGED <<cities, cur_path, solution, idleTwoOpt>>

\* line 17: path[i] beyond the end of the path
ToOuterIndexPanic ==
    /\ pc = "to_outer"
    /\ locals.i < locals.upper
    /\ ~InRange(cur_path, locals.i)
    /\ solution' = Panic
    /\ pc' = "to_panic"
    /\ UNCHANGED <<cities, cur_path, locals, idleTwoOpt>>

\* line 16: the range of i is exhausted
ToOuterEnd ==
    /\ pc = "to_outer"
    /\ ~(locals.i < locals.upper)
    /\ pc' = "to_while"
    /\ UNCHANGED <<cities, cur_path, locals, solution, idleTwoOpt>>

\* lines 19-38: one pair (i, j)
ToInnerStep ==
    /\ pc = "to_inner"
    /\ locals.j < locals.n_indices
    /\ LET i == locals.i
           j == locals.j
           current_distance ==
               TableDistance(cities, At(cur_path, i), At(cur_path, i + 1))
               + TableDistance(cities, At(cur_path, j), At(cur_path, j + 1))
           new_distance ==
               TableDistance(cities, At(cur_path, i), At(cur_path, j))
               + TableDistance(cities, At(cur_path, i + 1), At(cur_path, j + 1))
       IN IF new_distance < current_distance
          THEN /\ cur_path' = swap_2opt(cur_path, i + 1, j)
               /\ locals' = [locals EXCEPT !.improved = TRUE, !.j = j + 1]
          ELSE /\ cur_path' = cur_path
               /\ locals' = [locals EXCEPT !.j = j + 1]
    /\ UNCHANGED <<cities, pc, solution, idleTwoOpt>>

\* line 19: the range of j is exhausted
ToInnerEnd ==
    /\ pc = "to_inner"
    /\ ~(locals.j < locals.n_indices)
    /\ locals' = [locals EXCEPT !.i = locals.i + 1]
    /\ pc' = "to_outer"
    /\ UNCHANGED <<cities, cur_path, solution, idleTwoOpt>>

NextTwoOpt ==
    \/ ToStart
    \/ ToWhilePass
    \/ ToWhileOverflow
    \/ ToReturn
    \/ ToOuterStep
    \/ ToOuterIndexPanic
    \/ ToOuterEnd
    \/ ToInnerStep
    \/ ToInnerEnd

SpecTwoOpt == InitTwoOpt /\ [][NextTwoOpt]_vars

\* the route at cyclic position x
CyclicAt(p, x) == At(p, x % Len(p))

(* C5: when two_opt::solve returns, no pair (i, j) with i+2 <= j <= N-1    *)
(* has d(path[i], path[j]) + d(path[i+1], path[(j+1) mod N]) strictly      *)
(* below d(path[i], path[i+1]) + d(path[j], path[(j+1) mod N]).            *)
C5_TwoOptLocalOptimum ==
    (pc = "to_done" /\ solution.kind = "Ok") =>
        LET p == solution.route
            n == Len(p)
        IN \A i \in 0..(n - 1) : \A j \in 0..(n - 1) :
              (i + 2 <= j) =>
                 ~( TableDistance(cities, At(p, i), At(p, j))
                      + TableDistance(cities, At(p, i + 1), CyclicAt(p, j + 1))
                    < TableDistance(cities, At(p, i), At(p, i + 1))
                      + TableDistance(cities, At(p, j), CyclicAt(p, j + 1)) )

(* C6: two_opt::solve never faults and returns a permutation of the input  *)
(* ids for every input with N >= 2, N = 2 and N = 3 included.              *)
C6_TwoOptNoFault ==
    /\ pc # "to_panic"
    /\ pc = "to_done" =>
          (solution.kind = "Ok" /\ IsPermutationOf(solution.route, Ids(cities)))

\* two_opt::solve run to its end: the solver's thread takes its next step
\* whenever it has one
SpecTwoOptFair == SpecTwoOpt /\ WF_vars(NextTwoOpt)

\* the closed tour over the path, by the table's distances
ClosedTour(p) == total_distance(cities, p).val

(* C30: for N >= 3 every accepted move of two_opt::solve shortens the      *)
(* closed tour by exactly current_distance - new_distance, a positive      *)
(* amount, and the solver returns after finitely many passes.              *)
C30_AcceptedMoveShortensTour ==
    /\ [][ (pc = "to_inner" /\ Len(cities) >= 3 /\ locals.j < locals.n_indices
             /\ locals'.j = locals.j + 1) =>
            LET i == locals.i
                j == locals.j
                current_distance ==
                    TableDistance(cities, At(cur_path, i), At(cur_path, i + 1))
                    + TableDistance(cities, At(cur_path, j), At(cur_path, j + 1))
                new_distance ==
                    TableDistance(cities, At(cur_path, i), At(cur_path, j))
                    + TableDistance(cities, At(cur_path, i + 1), At(cur_path, j + 1))
            IN IF new_distance < current_distance
               THEN /\ ClosedTour(cur_path') =
                          ClosedTour(cur_path) - (current_distance - new_distance)
                    /\ ClosedTour(cur_path') < ClosedTour(cur_path)
               ELSE cur_path' = cur_path ]_vars
    /\ (Len(cities) >= 3) => <>(pc = "to_done")

\* a run over at least three cities that accepted a move and returned
C30_Witness ==
    /\ pc = "to_done" /\ solution.kind = "Ok"
    /\ Len(cities) >= 3
    /\ solution.route # [k \in 1..Len(cities) |-> cities[k].id]
    /\ solution.total < ClosedTour([k \in 1..Len(cities) |-> cities[k].id])

---------------------------------------------------------------------------
(* Routes and their random successors (route.rs) *)

\* Route::from_cities: the ids in input order
RouteFromCities(cs) == [k \in 1..Len(cs) |-> cs[k].id]

\* random_pair: the ordered pairs two draws from 0..n_items-1 can give
random_pair(n_items) ==
    {<<Min(pos1, pos2), Max(pos1, pos2)>> :
        pos1 \in 0..(n_items - 1), pos2 \in 0..(n_items - 1)}

max_iter == 10

RECURSIVE RetryPair(_, _)
\* random_position_pair after the first draw: a pair more than one apart
\* ends the loop, the draw after the last retry is returned as it is
RetryPair(n_items, retries) ==
    IF retries = 0 THEN random_pair(n_items)
    ELSE {pair \in random_pair(n_items) : WrappingSub(pair[2], pair[1]) > 1}
         \cup RetryPair(n_items, retries - 1)

\* the pairs for every route length of the model, computed once
PositionPairs ==
    [n_items \in 2..Max(HeurMaxN, Max(HillMaxN, GaMaxN)) |-> RetryPair(n_items, max_iter)]

random_position_pair(n_items) == PositionPairs[n_items]

swap_cities_overwrite(route, from, to) ==
    [i \in 1..Len(route) |-> IF i = from + 1 THEN route[to + 1] ELSE route[i]]

\* a slip: only the two end cities of the segment change places
swap_cities_endpoints(route, from, to) ==
    [i \in 1..Len(route) |->
        IF i = from + 1 THEN route[to + 1]
        ELSE IF i = to + 1 THEN route[from + 1]
        ELSE route[i]]

\* swap_cities: the segment from..=to reversed in place
swap_cities(route, from, to) ==
    SubSeq(route, 1, from) \o Reverse(SubSeq(route, from + 1, to + 1))
                           \o SubSeq(route, to + 2, Len(route))

\* Route::random_successor: every route one call can return
random_successor(route) ==
    {swap_cities(route, pair[1], pair[2]) : pair \in random_position_pair(Len(route))}

---------------------------------------------------------------------------
(* The heuristic solvers: inputs and options *)

\* rationals for the f32 options and values that are not whole numbers
Rat(num, den) == [num |-> num, den |-> den]
RatLess(a, b) == a.num * b.den < b.num * a.den

\* f32::MANTISSA_DIGITS, and a cooling rate of 2^-26, an f32 above 0
F32_MANTISSA_DIGITS == 24
TinyRate == Rat(1, 67108864)

\* the corners of the rectangle in crossing order, in tour order, and one
\* corner repeated
Zigzag == <<<<0, 0>>, <<3, 4>>, <<3, 0>>, <<0, 4>>>>
Ring == <<<<0, 0>>, <<3, 0>>, <<3, 4>>, <<0, 4>>>>
HeurLayouts(n) ==
    { [k \in 1..n |-> Zigzag[((k - 1) % 4) + 1]],
      [k \in 1..n |-> Ring[((k - 1) % 4) + 1]],
      [k \in 1..n |-> <<0, 0>>] }

\* ids as build_points gives them, and sparse ids in descending order
HeurIdSeqs(n) ==
    { [k \in 1..n |-> k - 1],
      [k \in 1..n |-> 3 * (n - k) + 2] }

HeurInputs(n) ==
    {[k \in 1..n |-> KDPoint(ids[k], cs[k])] : ids \in HeurIdSeqs(n), cs \in HeurLayouts(n)}

\* the SolverOptions a run of the solver reads, the other fields left out
OptionsOf(solver) ==
    CASE solver = "nearest_neighbor" ->
            {[kind |-> "Some", n_nearest |-> k] : k \in {0, 1, 3}}
      [] solver = "stochastic_hill" ->
            {[kind |-> "Some"]}
      [] solver = "simulated_annealing" ->
            {[kind |-> "Some", epochs |-> e, cooling_rate |-> r,
              min_temperature |-> 1, max_temperature |-> t] :
                e \in 0..HeurMaxEpochs, r \in {Rat(0, 1), Rat(1, 2), TinyRate}, t \in {0, 2}}
      [] solver = "tabu_search" ->
            {[kind |-> "Some", epochs |-> e] : e \in 0..HeurMaxEpochs}
      [] solver = "genetic_algorithm" ->
            {[kind |-> "Some", epochs |-> e, n_elite |-> k, mutation_probability |-> m] :
                e \in 0..HeurMaxEpochs, k \in {0, 3},
                m \in {Rat(0, 1), Rat(1, 2)}}

Solvers ==
    {"nearest_neighbor", "stochastic_hill", "simulated_annealing",
     "tabu_search", "genetic_algorithm"}

InputsOf(solver) ==
    UNION {HeurInputs(n) : n \in 2..(CASE solver = "genetic_algorithm" -> GaMaxN
                                       [] solver = "stochastic_hill" -> HillMaxN
                                       [] OTHER -> HeurMaxN)}

InitHeur ==
    /\ locals \in {[solver |-> s] : s \in Solvers}
    /\ cities \in InputsOf(locals.solver)
    /\ options \in OptionsOf(locals.solver)
    /\ pc = "start"
    /\ dm = NoDm
    /\ CallIdle /\ SolutionIdle /\ BhkIdle /\ AuxIdle
    /\ cur_path = <<>> /\ best_sol = NoBest

---------------------------------------------------------------------------
(* Nearest neighbour (nearest_neighbor.rs) *)

\* KDTree::nearest followed by NearestResult::nearest().first(): the items
\* that can stand first, none when nothing is kept
nearest_first(cs, target, n) ==
    LET others == {c \in SeqToSet(cs) : c.id # target.id}
    IN IF n = 0 THEN {}
       ELSE {[point |-> c, distance |-> Distance(c, target)] :
                c \in {c \in others :
                          \A o \in others : Distance(c, target) <= Distance(o, target)}}

\* path.iter().position(|&x| x == id)
PositionOf(p, id) == CHOOSE k \in 0..(Len(p) - 1) : At(p, k) = id /\ \A l \in 0..(k - 1) : At(p, l) # id

\* path.swap(a, b)
SwapAt(p, a, b) ==
    [i \in 1..Len(p) |-> IF i = a + 1 THEN p[b + 1]
                         ELSE IF i = b + 1 THEN p[a + 1] ELSE p[i]]

\* lines 9-15
NnStart ==
    /\ pc = "start" /\ locals.solver = "nearest_neighbor"
    /\ cur_path' = RouteFromCities(cities)
    /\ locals' = [solver |-> "nearest_neighbor", i |-> 0]
    /\ pc' = "nn_loop"
    /\ UNCHANGED <<cities, options, dm, best_sol, solution, idleHeur>>

\* lines 17-47: one round of the loop
NnStep ==
    /\ pc = "nn_loop"
    /\ locals.i < Len(cur_path) - 1
    /\ LET i == locals.i
           id1 == At(cur_path, i)
           city1 == city_table_from_vec(cities)[id1]
           search_result == nearest_first(cities, city1, options.n_nearest)
           id2 == At(cur_path, i + 1)
           current_distance == Distance(city1, city_table_from_vec(cities)[id2])
       IN IF search_result = {}
          THEN cur_path' = cur_path
          ELSE \E closest_item \in search_result :
                  IF closest_item.distance < current_distance
                  THEN cur_path' = SwapAt(cur_path, i + 1,
                                          PositionOf(cur_path, closest_item.point.id))
                  ELSE cur_path' = cur_path
    /\ locals' = [locals EXCEPT !.i = locals.i + 1]
    /\ UNCHANGED <<cities, options, pc, dm, best_sol, solution, idleHeur>>

\* lines 49-51
NnReturn ==
    /\ pc = "nn_loop"
    /\ ~(locals.i < Len(cur_path) - 1)
    /\ solution' = SolutionNew(cur_path, cities)
    /\ pc' = "done"
    /\ UNCHANGED <<cities, options, dm, cur_path, best_sol, locals, idleHeur>>

---------------------------------------------------------------------------
(* Stochastic hill climbing (stochastic_hill.rs) *)

\* shuffle_route: every order of the route
shuffle_route(route) == Perms(SeqToSet(route))

\* generate_successor, with the module's own pair of draws
generate_successor(route) ==
    {swap_cities(route, pair[1], pair[2]) : pair \in random_pair(Len(route))}

\* Tour::new
TourNew(route, cs) ==
    [kind |-> "Ok", route |-> route, total |-> Expect(total_distance(cs, route))]

NoRoute == [some |-> FALSE]
SomeRoute(route) == [some |-> TRUE, route |-> route]

\* lines 11-20
HillStart ==
    /\ pc = "start" /\ locals.solver = "stochastic_hill"
    /\ \E shuffled \in shuffle_route(RouteFromCities(cities)) :
          best_sol' = [route |-> shuffled,
                       distance |-> Expect(total_distance(cities, shuffled))]
    /\ locals' = [solver |-> "stochastic_hill", prev_best_route |-> NoRoute,
                  prev_distance |-> F32_MAX, epoch |-> 0, n_stale |-> 0]
    /\ pc' = "hill_loop"
    /\ UNCHANGED <<cities, options, dm, cur_path, solution, idleHeur>>

\* lines 21-34: a candidate, taken when it is shorter
HillStep ==
    /\ pc = "hill_loop"
    /\ \E candidate \in generate_successor(best_sol.route) :
        LET candidate_distance == Expect(total_distance(cities, candidate))
            better == candidate_distance < best_sol.distance
        IN /\ best_sol' = IF better
                           THEN [route |-> candidate, distance |-> candidate_distance]
                           ELSE best_sol
           /\ locals' = [locals EXCEPT
                            !.n_stale = IF better THEN 0 ELSE @ + 1,
                            !.epoch = @ + 1]
    /\ pc' = "hill_stale"
    /\ UNCHANGED <<cities, options, dm, cur_path, solution, idleHeur>>

\* lines 36-53: the restart after a long plateau, and the end of the round
HillRestart ==
    /\ pc = "hill_stale"
    /\ IF locals.n_stale > MAX_STALE
       THEN LET memorize == best_sol.distance < locals.prev_distance
            IN /\ \E shuffled \in shuffle_route(best_sol.route) :
                     best_sol' = [route |-> shuffled,
                                  distance |-> Expect(total_distance(cities, shuffled))]
               /\ locals' = [locals EXCEPT
                     !.prev_best_route = IF memorize THEN SomeRoute(best_sol.route) ELSE @,
                     !.prev_distance = IF memorize THEN best_sol.distance ELSE @,
                     !.n_stale = 0]
       ELSE UNCHANGED <<best_sol, locals>>
    /\ pc' = IF locals.epoch > MAX_EPOCH THEN "hill_exit" ELSE "hill_loop"
    /\ UNCHANGED <<cities, options, dm, cur_path, solution, idleHeur>>

\* lines 55-59
HillReturn ==
    /\ pc = "hill_exit"
    /\ LET best_route == IF locals.prev_distance < best_sol.distance
                         THEN locals.prev_best_route.route
                         ELSE best_sol.route
       IN solution' = TourNew(best_route, cities)
    /\ pc' = "done"
    /\ UNCHANGED <<cities, options, dm, cur_path, best_sol, locals, idleHeur>>

---------------------------------------------------------------------------
(* Simulated annealing (simulated_annealing.rs) *)

\* the rounds after which a loop that its options never stop is cut off
EpochCap == HeurMaxEpochs + 1

\* position of the highest set bit of n > 0
RECURSIVE Msb(_)
Msb(n) == IF n <= 1 THEN 0 ELSE 1 + Msb(n \div 2)

\* a fraction with a power of two below, in lowest terms
RECURSIVE Lowest(_, _)
Lowest(num, den) ==
    IF num = 0 THEN Rat(0, 1)
    ELSE IF num % 2 = 0 /\ den % 2 = 0 THEN Lowest(num \div 2, den \div 2)
    ELSE Rat(num, den)

\* the f32 nearest to num/den, den a power of two: the numerator keeps
\* its 24 leading bits, rounded to nearest, ties to even
RoundF32(num, den) ==
    IF num < Pow2(F32_MANTISSA_DIGITS) THEN Lowest(num, den)
    ELSE LET d == Pow2(Msb(num) - (F32_MANTISSA_DIGITS - 1))
             q == num \div d
             rem == num % d
             m == IF 2 * rem > d \/ (2 * rem = d /\ q % 2 = 1) THEN q + 1 ELSE q
         IN Lowest(m * d, den)

\* f32 product and difference of fractions with powers of two below
F32Mul(a, b) == RoundF32(a.num * b.num, a.den * b.den)
F32Sub(a, b) ==
    LET den == Max(a.den, b.den)
    IN RoundF32(a.num * (den \div a.den) - b.num * (den \div b.den), den)

\* cooling: temperature - cooling_rate * temperature, in f32
cooling(temperature, cooling_rate) ==
    F32Sub(temperature, F32Mul(cooling_rate, temperature))

\* is_acceptable: the answers the draw of p allows.  metropolis lies
\* strictly between 0 and 1 for a positive temperature and is 0 at 0.
is_acceptable(temperature, old_distance, new_distance) ==
    IF new_distance < old_distance THEN {TRUE}
    ELSE IF Abs(new_distance - old_distance) < 1 THEN {FALSE}
    ELSE IF temperature.num = 0 THEN {FALSE}
    ELSE BOOLEAN

\* lines 8-14
SaStart ==
    /\ pc = "start" /\ locals.solver = "simulated_annealing"
    /\ best_sol' = [route |-> RouteFromCities(cities),
                    distance |-> Expect(total_distance(cities, RouteFromCities(cities)))]
    /\ locals' = [solver |-> "simulated_annealing", epoch |-> 0,
                  temperature |-> Rat(options.max_temperature, 1)]
    /\ pc' = "sa_loop"
    /\ UNCHANGED <<cities, options, dm, cur_path, solution, idleHeur>>

\* line 15: the loop condition
SaRunning ==
    \/ locals.epoch < options.epochs
    \/ RatLess(Rat(options.min_temperature, 1), locals.temperature)

\* lines 15-33: one round of the loop
SaStep ==
    /\ pc = "sa_loop"
    /\ SaRunning
    /\ locals.epoch < EpochCap
    /\ \E candidate \in random_successor(best_sol.route) :
        LET candidate_distance == Expect(total_distance(cities, candidate))
        IN \E accepted \in is_acceptable(locals.temperature, best_sol.distance,
                                         candidate_distance) :
              best_sol' = IF accepted
                          THEN [route |-> candidate, distance |-> candidate_distance]
                          ELSE best_sol
    /\ locals' = [locals EXCEPT !.temperature = cooling(@, options.cooling_rate),
                                !.epoch = @ + 1]
    /\ UNCHANGED <<cities, options, pc, dm, cur_path, solution, idleHeur>>

\* line 35
SaReturn ==
    /\ pc = "sa_loop"
    /\ ~SaRunning
    /\ solution' = SolutionNew(best_sol.route, cities)
    /\ pc' = "done"
    /\ UNCHANGED <<cities, options, dm, cur_path, best_sol, locals, idleHeur>>

\* C29: simulated_annealing returns only at a round count of at least
\* epochs with a temperature of at most min_temperature, and with a
\* cooling rate between 0 and 1 every round lowers the temperature, so a
\* start above min_temperature > 0 ends below it
C29_AnnealingCoolsAndStops ==
    locals.solver = "simulated_annealing" =>
        /\ pc = "done" =>
            /\ locals.epoch >= options.epochs
            /\ ~RatLess(Rat(options.min_temperature, 1), locals.temperature)
        /\ (/\ pc = "sa_loop" /\ locals.epoch > 0
            /\ RatLess(Rat(0, 1), options.cooling_rate)
            /\ RatLess(options.cooling_rate, Rat(1, 1))
            /\ options.max_temperature > options.min_temperature) =>
                RatLess(locals.temperature, Rat(options.max_temperature, 1))

---------------------------------------------------------------------------
(* Tabu search (tabu_search.rs) *)

\* a slip: the newest item is dropped when the list is full
TabuListAdd_pop_front(items, capacity, route) ==
    <<route>> \o (IF Len(items) >= capacity THEN Tail(items) ELSE items)

\* TabuList::add: the oldest item dropped at the back when full
TabuListAdd(items, capacity, route) ==
    <<route>> \o (IF Len(items) >= capacity THEN SubSeq(items, 1, Len(items) - 1)
                  ELSE items)

TabuListContains(items, route) == route \in SeqToSet(items)

RECURSIVE SelectRounds(_, _, _)
\* the candidates the loop of select can end with: an admissible draw ends
\* it, the draw of the last round is returned as it is
SelectRounds(successors, admissible, rounds) ==
    IF rounds = 0 THEN successors
    ELSE admissible \cup (IF successors \subseteq admissible THEN {}
                          ELSE SelectRounds(successors, admissible, rounds - 1))

\* select: every candidate it can return
select(cs, route, items) ==
    LET local_best == Expect(total_distance(cs, route))
        successors == random_successor(route)
        admissible == {c \in successors :
                          /\ Expect(total_distance(cs, c)) < local_best
                          /\ ~TabuListContains(items, c)}
    IN SelectRounds(successors, admissible, Len(route))

\* a slip: the loop ends when the count reaches max_epochs
update_terminate_at_bound(epoch, max_epochs) == max_epochs > 0 /\ epoch >= max_epochs

update_terminate(epoch, max_epochs) == max_epochs > 0 /\ epoch > max_epochs

\* lines 9-21
TabuStart ==
    /\ pc = "start" /\ locals.solver = "tabu_search"
    /\ LET best_route == RouteFromCities(cities)
       IN /\ best_sol' = [route |-> best_route,
                          distance |-> Expect(total_distance(cities, best_route))]
          /\ locals' = [solver |-> "tabu_search", capacity |-> Len(cities),
                        items |-> TabuListAdd(<<>>, Len(cities), best_route),
                        u |-> best_route, epoch |-> 0]
    /\ pc' = "tabu_loop"
    /\ UNCHANGED <<cities, options, dm, cur_path, solution, idleHeur>>

\* lines 22-47: one round of the loop
TabuStep ==
    /\ pc = "tabu_loop"
    /\ locals.epoch <= HeurMaxEpochs
    /\ \E local_best \in select(cities, locals.u, locals.items) :
        LET local_distance == Expect(total_distance(cities, local_best))
            epoch == locals.epoch + 1
        IN /\ best_sol' = IF local_distance < best_sol.distance
                           THEN [route |-> local_best, distance |-> local_distance]
                           ELSE best_sol
           /\ locals' = [locals EXCEPT
                            !.items = TabuListAdd(@, locals.capacity, locals.u),
                            !.u = local_best,
                            !.epoch = epoch]
           /\ pc' = IF update_terminate(epoch, options.epochs)
                    THEN "tabu_exit" ELSE "tabu_loop"
    /\ UNCHANGED <<cities, options, dm, cur_path, solution, idleHeur>>

\* lines 49-50
TabuReturn ==
    /\ pc = "tabu_exit"
    /\ solution' = SolutionNew(best_sol.route, cities)
    /\ pc' = "done"
    /\ UNCHANGED <<cities, options, dm, cur_path, best_sol, locals, idleHeur>>

\* C28: tabu_search leaves its loop only with epochs > 0, and then after
\* exactly epochs + 1 rounds, at the first count above epochs; with
\* epochs = 0 it stays in the loop
C28_TabuStopsAfterEpochsPlusOne ==
    locals.solver = "tabu_search" =>
        /\ pc \in {"tabu_exit", "done"} =>
              options.epochs > 0 /\ locals.epoch = options.epochs + 1
        /\ pc = "tabu_loop" => options.epochs = 0 \/ locals.epoch <= options.epochs

\* a run with the largest epochs has returned after epochs + 1 rounds
C28_Witness ==
    /\ locals.solver = "tabu_search"
    /\ pc = "done"
    /\ options.epochs = HeurMaxEpochs
    /\ locals.epoch = HeurMaxEpochs + 1
    /\ solution.kind = "Ok"

---------------------------------------------------------------------------
(* Genetic algorithm (genetic_algorithm.rs) *)

\* build_evaluator: the fitness 1 / tour_length, 0 for a tour of length 0
fitness_fn(m, p) ==
    LET length == Expect(tour_length(m, p))
    IN IF length = 0 THEN Rat(0, 1) ELSE Rat(1, length)

TspGenotype(fitness, p) == [fitness |-> fitness, genotype |-> p]

\* TspPopulation::with_capacity
PopulationWithCapacity(n) == [n |-> n, individuals |-> <<>>]

\* TspPopulation::add: nothing is added to a full population
PopulationAdd(population, individual) ==
    IF population.n > Len(population.individuals)
    THEN [population EXCEPT !.individuals = Append(@, individual)]
    ELSE population

RECURSIVE AddAll(_, _)
AddAll(population, inds) ==
    IF inds = <<>> THEN population
    ELSE AddAll(PopulationAdd(population, Head(inds)), Tail(inds))

\* total_fitness is above 0 exactly when some fitness is
TotalFitnessPositive(population) ==
    \E k \in 1..Len(population.individuals) : population.individuals[k].fitness.num > 0

RECURSIVE InsertByFitness(_, _)
\* the place of x behind every individual that is at least as fit
InsertByFitness(sorted, x) ==
    IF sorted = <<>> THEN <<x>>
    ELSE IF RatLess(Head(sorted).fitness, x.fitness) THEN <<x>> \o sorted
    ELSE <<Head(sorted)>> \o InsertByFitness(Tail(sorted), x)

RECURSIVE SortIndividuals(_, _)
SortIndividuals(sorted, rest) ==
    IF rest = <<>> THEN sorted
    ELSE SortIndividuals(InsertByFitness(sorted, Head(rest)), Tail(rest))

\* TspPopulation::sort: by fitness, fittest first, equal ones in their order
PopulationSort(population) ==
    [population EXCEPT !.individuals = SortIndividuals(<<>>, @)]

\* TspPopulation::best: the last of the fittest individuals
PopulationBest(population) ==
    LET inds == population.individuals
        k == CHOOSE k \in 1..Len(inds) :
                /\ \A l \in 1..Len(inds) : ~RatLess(inds[k].fitness, inds[l].fitness)
                /\ \A l \in (k + 1)..Len(inds) : RatLess(inds[l].fitness, inds[k].fitness)
    IN inds[k]

\* random_selection: the wheel stops on an individual of positive fitness
random_selection(population) ==
    {population.individuals[k] : k \in {k \in 1..Len(population.individuals) :
                                          population.individuals[k].fitness.num > 0}}

RECURSIVE CrossFill(_, _, _, _, _, _)
\* lines 130-146 for one child: the parent's values outside the other
\* parent's range, written from position j on
CrossFill(parent, range_other, gene, k, j, i) ==
    IF i = Len(parent) THEN gene
    ELSE LET x == At(parent, k)
             next_k == (k + 1) % Len(parent)
         IN IF x \notin range_other
            THEN CrossFill(parent, range_other,
                           [pos \in 1..Len(gene) |-> IF pos = j + 1 THEN x ELSE gene[pos]],
                           next_k, (j + 1) % Len(parent), i + 1)
            ELSE CrossFill(parent, range_other, gene, next_k, j, i + 1)

\* a slip: each child leaves out the ids of its own parent's segment
ordered_crossover_genes_own_range(parent1, parent2, from, to) ==
    LET gene_len == Len(parent1)
        range_a == {At(parent1, i) : i \in from..to}
        range_b == {At(parent2, i) : i \in from..to}
        gene1 == [i \in 1..gene_len |-> IF from <= i - 1 /\ i - 1 <= to THEN parent2[i] ELSE 0]
        gene2 == [i \in 1..gene_len |-> IF from <= i - 1 /\ i - 1 <= to THEN parent1[i] ELSE 0]
        k == (to + 1) % gene_len
    IN <<CrossFill(parent1, range_a, gene1, k, k, 0),
         CrossFill(parent2, range_b, gene2, k, k, 0)>>

\* a slip: the parents are read from position 0 instead of (to + 1) % len
ordered_crossover_genes_read_from_0(parent1, parent2, from, to) ==
    LET gene_len == Len(parent1)
        range_a == {At(parent1, i) : i \in from..to}
        range_b == {At(parent2, i) : i \in from..to}
        gene1 == [i \in 1..gene_len |-> IF from <= i - 1 /\ i - 1 <= to THEN parent2[i] ELSE 0]
        gene2 == [i \in 1..gene_len |-> IF from <= i - 1 /\ i - 1 <= to THEN parent1[i] ELSE 0]
        j == (to + 1) % gene_len
    IN <<CrossFill(parent1, range_b, gene1, 0, j, 0),
         CrossFill(parent2, range_a, gene2, 0, j, 0)>>

ordered_crossover_genes(parent1, parent2, from, to) ==
    LET gene_len == Len(parent1)
        range_a == {At(parent1, i) : i \in from..to}
        range_b == {At(parent2, i) : i \in from..to}
        gene1 == [i \in 1..gene_len |-> IF from <= i - 1 /\ i - 1 <= to THEN parent2[i] ELSE 0]
        gene2 == [i \in 1..gene_len |-> IF from <= i - 1 /\ i - 1 <= to THEN parent1[i] ELSE 0]
        k == (to + 1) % gene_len
    IN <<CrossFill(parent1, range_b, gene1, k, k, 0),
         CrossFill(parent2, range_a, gene2, k, k, 0)>>

\* ordered_crossover: every pair of children the draw of (from, to) allows
ordered_crossover(m, parent1, parent2) ==
    {LET genes == ordered_crossover_genes(parent1.genotype, parent2.genotype,
                                          pair[1], pair[2])
     IN <<TspGenotype(fitness_fn(m, genes[1]), genes[1]),
          TspGenotype(fitness_fn(m, genes[2]), genes[2])>> :
        pair \in random_position_pair(Len(parent1.genotype))}

\* probability: the answers the draw allows
probability(p) ==
    IF p.num <= 0 THEN {FALSE} ELSE IF p.num >= p.den THEN {TRUE} ELSE BOOLEAN

RECURSIVE MutateSwaps(_, _, _)
MutateSwaps(genotype, from, to) ==
    IF from < to THEN MutateSwaps(SwapAt(genotype, from, to), from + 1, to - 1)
    ELSE genotype

\* TspGenotype::mutate: the segment reversed, the fitness left as it was
mutate(individual) ==
    {TspGenotype(individual.fitness,
                 MutateSwaps(individual.genotype, pair[1], pair[2])) :
        pair \in random_position_pair(Len(individual.genotype))}

\* lines 49-54: the child after the mutation draw
MaybeMutated(child) ==
    UNION {IF hit THEN mutate(child) ELSE {child} :
              hit \in probability(options.mutation_probability)}

\* lines 14-16, 175-176
GaStart ==
    /\ pc = "start" /\ locals.solver = "genetic_algorithm"
    /\ dm' = from_cities(cities)
    /\ locals' = [solver |-> "genetic_algorithm",
                  population |-> PopulationWithCapacity(Len(cities))]
    /\ pc' = "ga_seed"
    /\ UNCHANGED <<cities, options, cur_path, best_sol, solution, idleHeur>>

\* lines 178-182: one individual of the first population
GaSeed ==
    /\ pc = "ga_seed"
    /\ Len(locals.population.individuals) < locals.population.n
    /\ \E random_route \in random_successor(RouteFromCities(cities)) :
          locals' = [locals EXCEPT !.population =
                        PopulationAdd(@, TspGenotype(fitness_fn(dm, random_route),
                                                     random_route))]
    /\ UNCHANGED <<cities, options, pc, dm, cur_path, best_sol, solution, idleHeur>>

\* lines 28-33
GaSolveBegin ==
    /\ pc = "ga_seed"
    /\ ~(Len(locals.population.individuals) < locals.population.n)
    /\ locals' = [solver |-> "genetic_algorithm",
                  population_size |-> Len(locals.population.individuals),
                  current_population |-> locals.population,
                  new_population |-> PopulationWithCapacity(0),
                  epoch |-> 0, k |-> 0]
    /\ pc' = "ga_epoch"
    /\ UNCHANGED <<cities, options, dm, cur_path, best_sol, solution, idleHeur>>

\* lines 35-42: the fittest pass into the new population
GaEpochBegin ==
    /\ pc = "ga_epoch"
    /\ locals.epoch < options.epochs
    /\ LET sorted == PopulationSort(locals.current_population)
           elite == SubSeq(sorted.individuals, 1,
                           Min(options.n_elite, Len(sorted.individuals)))
       IN locals' = [locals EXCEPT
                        !.current_population = sorted,
                        !.new_population =
                            AddAll(PopulationWithCapacity(locals.population_size), elite),
                        !.k = options.n_elite]
    /\ pc' = "ga_breed"
    /\ UNCHANGED <<cities, options, dm, cur_path, best_sol, solution, idleHeur>>

\* lines 44-58: two parents, their two children
GaBreed ==
    /\ pc = "ga_breed"
    /\ locals.k < locals.population_size \div 2
    /\ TotalFitnessPositive(locals.current_population)
    /\ \E parent1 \in random_selection(locals.current_population) :
       \E parent2 \in random_selection(locals.current_population) :
       \E children \in ordered_crossover(dm, parent1, parent2) :
       \E child1 \in MaybeMutated(children[1]) :
       \E child2 \in MaybeMutated(children[2]) :
          locals' = [locals EXCEPT
                        !.new_population = PopulationAdd(PopulationAdd(@, child1), child2),
                        !.k = @ + 1]
    /\ UNCHANGED <<cities, options, pc, dm, cur_path, best_sol, solution, idleHeur>>

\* line 223: gen_range(0.0, total) with a total of 0 panics
GaSelectionPanic ==
    /\ pc = "ga_breed"
    /\ locals.k < locals.population_size \div 2
    /\ ~TotalFitnessPositive(locals.current_population)
    /\ solution' = Panic
    /\ pc' = "panic"
    /\ UNCHANGED <<cities, options, dm, cur_path, best_sol, locals, idleHeur>>

\* lines 60-70
GaEpochEnd ==
    /\ pc = "ga_breed"
    /\ ~(locals.k < locals.population_size \div 2)
    /\ locals' = [locals EXCEPT !.current_population = locals.new_population,
                                !.epoch = @ + 1]
    /\ pc' = "ga_epoch"
    /\ UNCHANGED <<cities, options, dm, cur_path, best_sol, solution, idleHeur>>

\* lines 73-75, 20
GaReturn ==
    /\ pc = "ga_epoch"
    /\ ~(locals.epoch < options.epochs)
    /\ solution' = SolutionNew(PopulationBest(locals.current_population).genotype, cities)
    /\ pc' = "done"
    /\ UNCHANGED <<cities, options, dm, cur_path, best_sol, locals, idleHeur>>

(* Specification SpecHeur: one run of one of the five heuristic solvers *)

NextHeur ==
    \/ NnStart \/ NnStep \/ NnReturn
    \/ HillStart \/ HillStep \/ HillRestart \/ HillReturn
    \/ SaStart \/ SaStep \/ SaReturn
    \/ TabuStart \/ TabuStep \/ TabuReturn
    \/ GaStart \/ GaSeed \/ GaSolveBegin \/ GaEpochBegin
    \/ GaBreed \/ GaSelectionPanic \/ GaEpochEnd \/ GaReturn

SpecHeur == InitHeur /\ [][NextHeur]_vars

\* the genotypes of a population held in the locals, none if it is not there
GenotypesOf(field) ==
    IF field \in DOMAIN locals
    THEN {locals[field].individuals[k].genotype : k \in 1..Len(locals[field].individuals)}
    ELSE {}

\* every route the run holds: current route, best route, remembered route,
\* tabu items, population individuals, returned route
HeldRoutes ==
    (IF cur_path # <<>> THEN {cur_path} ELSE {})
    \cup (IF best_sol # NoBest THEN {best_sol.route} ELSE {})
    \cup (IF "u" \in DOMAIN locals THEN {locals.u} \cup SeqToSet(locals.items) ELSE {})
    \cup (IF "prev_best_route" \in DOMAIN locals /\ locals.prev_best_route.some
          THEN {locals.prev_best_route.route} ELSE {})
    \cup GenotypesOf("population")
    \cup GenotypesOf("current_population")
    \cup GenotypesOf("new_population")
    \cup (IF solution.kind = "Ok" THEN {solution.route} ELSE {})

(* C4: in nearest_neighbor, stochastic_hill, simulated_annealing,          *)
(* tabu_search and genetic_algorithm every route held during the run and   *)
(* the route returned is a permutation of the input ids, whatever the      *)
(* random choices.                                                         *)
C4_RoutesArePermutations ==
    /\ \A route \in HeldRoutes : IsPermutationOf(route, Ids(cities))
    /\ pc = "done" => solution.kind = "Ok"

\* a tabu search on the largest input has ended with a shorter route than
\* the input order
C4_Witness ==
    /\ pc = "done"
    /\ locals.solver = "tabu_search"
    /\ Len(cities) = HeurMaxN
    /\ solution.kind = "Ok"
    /\ solution.route # RouteFromCities(cities)
    /\ solution.total < Expect(total_distance(cities, RouteFromCities(cities)))
    /\ IsPermutationOf(solution.route, Ids(cities))

---------------------------------------------------------------------------
(* Queries on a kd-tree and insertions into an accumulator *)

idleKD == <<dmVars, solution, bhkVars, cur_path, best_sol, options, progVars>>

KdLine == {<<0, 0>>, <<1, 0>>, <<2, 0>>, <<3, 0>>}

\* a point list of one family, and a target of that family: a point of
\* the list, or KDPoint::new (id 0) on any coordinates
KdInputs(F) ==
    UNION {{<<build_points(rows), t>> :
                rows \in SeqsOfLen(F, len),
                t \in {KDPoint(id, c) : id \in 0..(len - 1), c \in F}} :
           len \in 1..KdMaxN}

InitKD ==
    /\ \E input \in KdInputs(Coords) \cup KdInputs(KdLine) :
        /\ cities = input[1]
        /\ locals \in {[solver |-> "kdtree", target |-> input[2], n |-> n, n_adds |-> 0,
                           offered |-> <<>>] :
                          n \in 0..KdMaxK}
    /\ pc = "kd_start"
    /\ dm = NoDm
    /\ CallIdle /\ SolutionIdle /\ BhkIdle /\ AuxIdle
    /\ cur_path = <<>> /\ best_sol = NoBest /\ options = NoOptions

KdBuildTree ==
    /\ pc = "kd_start"
    /\ tree' = build_tree(cities)
    /\ pc' = "kd_built"
    /\ UNCHANGED <<cities, locals, nearest_result, acc_result, idleKD>>

KdNearest ==
    /\ pc = "kd_built"
    /\ nearest_result' = KDTreeNearest(tree, locals.target, locals.n)
    /\ pc' = "kd_done"
    /\ UNCHANGED <<cities, locals, tree, acc_result, idleKD>>

AccNew ==
    /\ pc = "kd_done"
    /\ acc_result' = NearestResultNew(locals.target, F32_INFINITY, locals.n)
    /\ pc' = "acc"
    /\ UNCHANGED <<cities, locals, tree, nearest_result, idleKD>>

AccAdd ==
    /\ pc = "acc"
    /\ locals.n_adds < KdMaxAdds
    /\ \E pt \in SeqToSet(cities) \cup {locals.target},
          d \in {Distance(q, locals.target) : q \in SeqToSet(cities)} :
        /\ acc_result' = NearestResultAdd(acc_result, pt, d)
        /\ locals' = [locals EXCEPT !.n_adds = @ + 1,
                                    !.offered = Append(@, NearestResultItem(pt, d))]
    /\ UNCHANGED <<cities, pc, tree, nearest_result, idleKD>>

NextKD ==
    \/ KdBuildTree
    \/ KdNearest
    \/ AccNew
    \/ AccAdd

SpecKD == InitKD /\ [][NextKD]_vars

\* C11: the best point a kd-tree query reports is a point of the tree at
\* the smallest distance from the target, and the reported distance is the
\* distance of that point
C11_KdNearestIsClosest ==
    (pc = "kd_done" /\ locals.n >= 1) =>
        /\ nearest_result.point \in SeqToSet(cities)
        /\ nearest_result.distance = Distance(nearest_result.point, locals.target)
        /\ \A q \in SeqToSet(cities) :
               nearest_result.distance <= Distance(q, locals.target)

\* the retained points of a kd-tree query, and the retained items of an
\* accumulator, as (point, distance to the target) pairs
KdRetained ==
    IF nearest_result = NoResult THEN <<>>
    ELSE [k \in 1..Len(nearest_result.nearest) |->
             NearestResultItem(nearest_result.nearest[k],
                               Distance(nearest_result.nearest[k], locals.target))]

AccRetained == IF acc_result = NoResult THEN <<>> ELSE acc_result.results

RetainedOk(items) ==
    /\ Len(items) <= locals.n
    /\ \A k \in 1..(Len(items) - 1) : items[k].distance <= items[k + 1].distance
    /\ \A k \in 1..Len(items) : items[k].point.id # locals.target.id

\* C12: the list a kd-tree query retains, and the list an accumulator
\* retains after any insertions, has at most n entries, is sorted by
\* distance ascending and holds no point with the target's id
C12_RetainedListInvariant ==
    /\ RetainedOk(KdRetained)
    /\ RetainedOk(AccRetained)


\* the candidates offered to the accumulator that are not the target
OfferedOthers ==
    SelectSeq(locals.offered, LAMBDA item : item.point.id # locals.target.id)

\* the k smallest distances of the items, ascending
RECURSIVE SmallestDistances(_, _)
SmallestDistances(items, k) ==
    IF k = 0 \/ items = <<>> THEN <<>>
    ELSE LET least == CHOOSE i \in 1..Len(items) :
                        \A j \in 1..Len(items) : items[i].distance <= items[j].distance
         IN <<items[least].distance>>
            \o SmallestDistances(SubSeq(items, 1, least - 1)
                                 \o SubSeq(items, least + 1, Len(items)), k - 1)

\* C26: after any insertions into a NearestResult of capacity n >= 1 the
\* retained list holds min(n, m) entries, m the number of candidates
\* offered that are not the target, and they are offered candidates with
\* the min(n, m) smallest distances
C26_RetainedAreTheClosest ==
    (pc = "acc" /\ locals.n >= 1) =>
        /\ Len(AccRetained) = Min(locals.n, Len(OfferedOthers))
        /\ [k \in 1..Len(AccRetained) |-> AccRetained[k].distance]
              = SmallestDistances(OfferedOthers, locals.n)
        /\ \A k \in 1..Len(AccRetained) : AccRetained[k] \in SeqToSet(OfferedOthers)

\* every node of the subtree splits its points: left ones strictly below
\* the node's point on the node's coordinate, right ones at or above it
RECURSIVE IsSplitByNodes(_, _)
IsSplitByNodes(subtree, k) ==
    IF ~IsSome(subtree) THEN TRUE
    ELSE LET coord == subtree.depth % k IN
         /\ \A pt \in SeqToSet(walk_in_order(subtree.left)) :
               Get(pt, coord) < Get(subtree.point, coord)
         /\ \A pt \in SeqToSet(walk_in_order(subtree.right)) :
               Get(pt, coord) >= Get(subtree.point, coord)
         /\ IsSplitByNodes(subtree.left, k)
         /\ IsSplitByNodes(subtree.right, k)

\* C23: in the tree build_tree made, every node at depth d has only
\* points strictly less than its own on coordinate d mod k in its left
\* subtree and only points greater than or equal to it in its right
\* subtree, also when points share a value on that coordinate
C23_SubtreesSplitByCoordinate ==
    tree # NoTree => IsSplitByNodes(tree.root, Dim(cities[1]))

---------------------------------------------------------------------------
(* Ordered crossover on its own (genetic_algorithm.rs) *)

idleXo == <<cities, dm, solution, bhkVars, cur_path, best_sol, options, auxVars>>

\* the ids of a gene of length n: the code only compares them, so one
\* set per length, with gaps and with the id 0 the children are first
\* filled with
XoIds(n) == {3 * k : k \in 0..(n - 1)}

\* two parents over the same ids and a segment from..=to
XoInputs(n) ==
    {[solver |-> "crossover", parent1 |-> a, parent2 |-> b, from |-> f, to |-> t] :
        a \in Perms(XoIds(n)), b \in Perms(XoIds(n)),
        f \in 0..(n - 1), t \in 0..(n - 1)}

InitXo ==
    /\ \E n \in 1..XoMaxN : locals \in {x \in XoInputs(n) : x.from <= x.to}
    /\ pc = "xo_start"
    /\ cities = <<>>
    /\ dm = NoDm
    /\ CallIdle /\ SolutionIdle /\ BhkIdle /\ AuxIdle
    /\ cur_path = <<>> /\ best_sol = NoBest /\ options = NoOptions

XoCall ==
    /\ pc = "xo_start"
    /\ call' = [op |-> "ordered_crossover_genes",
                args |-> <<locals.parent1, locals.parent2, locals.from, locals.to>>,
                ret |-> ordered_crossover_genes(locals.parent1, locals.parent2,
                                                locals.from, locals.to)]
    /\ pc' = "xo_done"
    /\ UNCHANGED <<locals, idleXo>>

NextXo == XoCall

SpecXo == InitXo /\ [][NextXo]_vars

\* the ids of a gene, the gene read cyclically from 0-based position start,
\* and the 0-based positions outside the segment in that cyclic order
Rotate(gene, start) ==
    [k \in 1..Len(gene) |-> At(gene, (start + k - 1) % Len(gene))]

Segment(gene, from, to) == {At(gene, i) : i \in from..to}

Outside(gene, from, to) ==
    SubSeq(Rotate(gene, (to + 1) % Len(gene)), 1, Len(gene) - (to - from + 1))

Without(gene, ids) == SelectSeq(gene, LAMBDA x : x \notin ids)

\* child keeps other's segment in place and, after it, the rest of parent
\* in parent's cyclic order
IsOrderedChild(child, parent, other, from, to) ==
    /\ Len(child) = Len(parent)
    /\ \A i \in from..to : At(child, i) = At(other, i)
    /\ Outside(child, from, to)
         = Without(Rotate(parent, (to + 1) % Len(parent)), Segment(other, from, to))

\* C14: both children of ordered_crossover_genes are permutations of the
\* parents' ids, for every segment from <= to
C14_ChildrenArePermutations ==
    pc = "xo_done" =>
        /\ IsPermutationOf(call.ret[1], SeqToSet(locals.parent1))
        /\ IsPermutationOf(call.ret[2], SeqToSet(locals.parent1))

\* a full-length crossover of two different parents of the longest length,
\* and a one-position segment, have been made
C14_Witness ==
    /\ pc = "xo_done"
    /\ Len(locals.parent1) = XoMaxN
    /\ locals.parent1 # locals.parent2
    /\ locals.from = 0 /\ locals.to = XoMaxN - 1
    /\ call.ret = <<locals.parent2, locals.parent1>>

\* C15: child1 holds parent2's segment in place and, read cyclically from
\* (to + 1) mod N, the ids of parent1 outside that segment in parent1's
\* cyclic order from (to + 1) mod N; child2 likewise with the parents
\* exchanged
C15_ChildrenFollowOrderedCrossover ==
    pc = "xo_done" =>
        /\ IsOrderedChild(call.ret[1], locals.parent1, locals.parent2, locals.from, locals.to)
        /\ IsOrderedChild(call.ret[2], locals.parent2, locals.parent1, locals.from, locals.to)

\* an inner segment whose fill wraps around the end of the gene, with
\* children that differ from both parents
C15_Witness ==
    /\ pc = "xo_done"
    /\ Len(locals.parent1) = XoMaxN
    /\ locals.from = 1 /\ locals.to = XoMaxN - 2
    /\ call.ret[1] \notin {locals.parent1, locals.parent2}
    /\ call.ret[2] \notin {locals.parent1, locals.parent2}
    /\ IsOrderedChild(call.ret[1], locals.parent1, locals.parent2, locals.from, locals.to)

---------------------------------------------------------------------------
(* Route::random_successor, draw by draw (route.rs) *)

idleRoute == <<cities, dm, solution, bhkVars, best_sol, options, auxVars>>

InitRoute ==
    /\ \E n \in 2..RouteMaxN : cur_path \in Perms(XoIds(n))
    /\ locals = [solver |-> "route", self_route |-> cur_path]
    /\ pc = "rs_start"
    /\ cities = <<>>
    /\ dm = NoDm
    /\ CallIdle /\ SolutionIdle /\ BhkIdle /\ AuxIdle
    /\ best_sol = NoBest /\ options = NoOptions

\* lines 40-42 and 56: the route is cloned and the first pair drawn
RsStart ==
    /\ pc = "rs_start"
    /\ \E pair \in random_pair(Len(cur_path)) :
          locals' = [solver |-> "route", self_route |-> locals.self_route,
                     candidate |-> cur_path, pair |-> pair, iter |-> 0, draws |-> 1]
    /\ pc' = "rs_loop"
    /\ UNCHANGED <<cur_path, call, idleRoute>>

\* lines 59-66: the pair is not more than one apart and is drawn again
RsRedraw ==
    /\ pc = "rs_loop"
    /\ locals.iter < max_iter
    /\ ~(WrappingSub(locals.pair[2], locals.pair[1]) > 1)
    /\ \E pair \in random_pair(Len(cur_path)) :
          locals' = [locals EXCEPT !.pair = pair, !.iter = @ + 1, !.draws = @ + 1]
    /\ UNCHANGED <<cur_path, pc, call, idleRoute>>

\* lines 61-63, 68 and 43-45: the loop ends, the segment is reversed in the
\* clone and the clone is returned
RsSwap ==
    /\ pc = "rs_loop"
    /\ \/ locals.iter >= max_iter
       \/ WrappingSub(locals.pair[2], locals.pair[1]) > 1
    /\ locals' = [locals EXCEPT
                    !.candidate = swap_cities(@, locals.pair[1], locals.pair[2])]
    /\ call' = [op |-> "random_successor", args |-> <<cur_path>>,
                ret |-> locals'.candidate]
    /\ pc' = "rs_done"
    /\ UNCHANGED <<cur_path, idleRoute>>

NextRoute ==
    \/ RsStart
    \/ RsRedraw
    \/ RsSwap

SpecRoute == InitRoute /\ [][NextRoute]_vars

\* route with the positions i..=j (0-based) in reverse order
ReversedSegment(route, i, j) ==
    [k \in 1..Len(route) |->
        IF i + 1 <= k /\ k <= j + 1 THEN route[i + j + 2 - k] ELSE route[k]]

\* C16: random_successor draws at most 11 index pairs and returns the
\* route with one segment i..=j, 0 <= i <= j < n, reversed and every other
\* position as it was, a permutation of the route; the route it was
\* called on stays as it was
C16_SuccessorReversesOneSegment ==
    /\ pc \in {"rs_loop", "rs_done"} => locals.draws <= 11
    /\ cur_path = locals.self_route
    /\ pc = "rs_done" =>
        /\ \E i \in 0..(Len(cur_path) - 1), j \in 0..(Len(cur_path) - 1) :
              i <= j /\ call.ret = ReversedSegment(cur_path, i, j)
        /\ IsPermutationOf(call.ret, SeqToSet(cur_path))

\* the eleventh draw gave the two ends of the longest route and the whole
\* route came back reversed
C16_Witness ==
    /\ pc = "rs_done"
    /\ Len(cur_path) = RouteMaxN
    /\ locals.draws = 11
    /\ locals.pair = <<0, RouteMaxN - 1>>
    /\ call.ret = Reverse(cur_path)
    /\ call.ret # cur_path

---------------------------------------------------------------------------
(* The progress channel: the driver, the solver thread and the observer   *)
(* thread (main.rs, progress.rs)                                           *)

\* ProgressMessage (progress.rs); the route of a PathUpdate is
\* represented by the position of the message in the solver's output
CityChange(city_id) == [type |-> "CityChange", city_id |-> city_id]
PathUpdate(route) == [type |-> "PathUpdate", route |-> route]
Done == [type |-> "Done"]

\* the solvers the driver dispatches to (main.rs, solve)
Algorithms == {"bellman_karp", "branch_bound", "nearest_neighbor", "two_opt", "stochastic_hill", "simulated_annealing", "tabu_search", "genetic_algorithm"}

\* sets of message sequences: one after another, and an optional message
Cat(A, B) == {a \o b : a \in A, b \in B}
Opt(m) == {<<>>, <<m>>}
RECURSIVE CatAll(_)
CatAll(parts) ==
    IF parts = <<>> THEN {<<>>} ELSE Cat(Head(parts), CatAll(Tail(parts)))
Repeat(A, k) == CatAll([i \in 1..k |-> A])

\* the CityChange of a loop step over the path: the id at the position
\* depends on the swaps made before
AnyCityChange(n) == {<<CityChange(id)>> : id \in 0..(n - 1)}

\* a PathUpdate that is sent when a step improved the path
NewPath == Opt(PathUpdate(0))

\* bellman_karp.rs lines 38-47, 70-71
published_bellman_karp(n) ==
    {[i \in 1..(n - 1) |-> CityChange(i - 1)] \o <<PathUpdate(0), Done>>}

\* nearest_neighbor.rs lines 15-49
published_nearest_neighbor(n) ==
    CatAll(<<{<<PathUpdate(0)>>},
             Repeat(Cat(AnyCityChange(n), NewPath), n - 1),
             {<<Done>>}>>)

\* two_opt.rs lines 16-33: one pass of the for loops; improved tells
\* whether some step of the pass sent a PathUpdate
two_opt_pass(n) ==
    CatAll([i \in 1..(n - 3) |->
              Cat(AnyCityChange(n), Repeat(NewPath, (n - 1) - (i + 1)))])
improved(pass) == \E k \in 1..Len(pass) : pass[k].type = "PathUpdate"

\* two_opt.rs lines 11-43: passes while the last one improved the path
RECURSIVE two_opt_passes(_, _)
two_opt_passes(n, max_passes) ==
    LET last == {pass \in two_opt_pass(n) : ~improved(pass)}
        more == {pass \in two_opt_pass(n) : improved(pass)}
    IN  IF max_passes <= 1 THEN last
        ELSE last \cup Cat(more, two_opt_passes(n, max_passes - 1))
published_two_opt(n) ==
    CatAll(<<{<<PathUpdate(0)>>}, two_opt_passes(n, ProgMaxPasses), {<<Done>>}>>)

\* tabu_search.rs lines 16-49
published_tabu_search(epochs) ==
    CatAll(<<{<<PathUpdate(0)>>}, Repeat(NewPath, epochs), {<<Done>>}>>)

\* every PathUpdate carries its own route
Numbered(script) ==
    [k \in 1..Len(script) |->
        IF script[k].type = "PathUpdate" THEN PathUpdate(k) ELSE script[k]]

\* the messages a solver hands to send_progress while it solves n cities
published(algorithm, n) ==
    LET scripts ==
            CASE algorithm = "bellman_karp" -> published_bellman_karp(n)
              [] algorithm = "nearest_neighbor" -> published_nearest_neighbor(n)
              [] algorithm = "two_opt" -> published_two_opt(n)
              [] algorithm = "tabu_search" ->
                    UNION {published_tabu_search(e) : e \in 1..ProgMaxEpochs}
              [] OTHER -> {<<>>}
    IN  {Numbered(script) : script \in scripts}

\* a slip: the message is sent twice
build_publisher_resend(publish_ch, msg) == Append(Append(publish_ch, msg), msg)

\* progress.rs lines 45-53: the publisher of a run with a display sends
\* the message on the channel
build_publisher(publish_ch, msg) == Append(publish_ch, msg)

\* progress.rs lines 55-63: the publisher of a run without a display
build_dummy_publisher(publish_ch, msg) == publish_ch

\* main.rs lines 149-153
publisherfn(opts, publish_ch, msg) ==
    IF opts.show_progress THEN build_publisher(publish_ch, msg)
    ELSE build_dummy_publisher(publish_ch, msg)

\* a solver publishes through the publisher of the run
send_progress(opts, publish_ch, msg) == publisherfn(opts, publish_ch, msg)

\* the receiver lives until the observer thread ends (run owns in_channel)
ReceiverAlive == observer_pc # "ended"

\* the shapes of the plot that messages change (progress.rs, update)
NoDisplay == [textboxes |-> 0, path |-> 0, highlighted |-> -1]

\* progress.rs lines 284-294
update(display, msg) ==
    CASE msg.type = "Done" -> [display EXCEPT !.textboxes = @ + 1]
      [] msg.type = "PathUpdate" -> [display EXCEPT !.path = msg.route]
      [] msg.type = "CityChange" -> [display EXCEPT !.highlighted = msg.city_id]

idleProg == <<cities, dmVars, solution, bhkVars, cur_path, best_sol, kdVars>>

InitProg ==
    /\ \E algorithm \in Algorithms, n \in 3..ProgMaxN, show_progress \in BOOLEAN :
        /\ options = [show_progress |-> show_progress]
        /\ \E script \in published(algorithm, n) :
              locals = [solver |-> algorithm, script |-> script, k |-> 0,
                        printed |-> FALSE, timed_out |-> FALSE,
                        display |-> NoDisplay]
    /\ pc = "main"
    /\ chan = <<>> /\ sent = <<>> /\ received = <<>>
    /\ solver_pc = "none" /\ observer_pc = "none"
    /\ cities = <<>>
    /\ dm = NoDm
    /\ CallIdle /\ SolutionIdle /\ BhkIdle /\ KdIdle
    /\ cur_path = <<>> /\ best_sol = NoBest

\* main.rs lines 139-167: the channel is made and both threads start
Spawn ==
    /\ pc = "main"
    /\ pc' = "join1"
    /\ observer_pc' = "window_next"
    /\ solver_pc' = "solve"
    /\ UNCHANGED <<chan, sent, received, locals, options, idleProg>>

\* a solver's send_progress while the receiver lives (or without display)
Publish ==
    /\ solver_pc = "solve"
    /\ locals.k < Len(locals.script)
    /\ options.show_progress => ReceiverAlive
    /\ LET msg == locals.script[locals.k + 1] IN
        /\ chan' = send_progress(options, chan, msg)
        /\ sent' = IF options.show_progress THEN Append(sent, msg) ELSE sent
    /\ locals' = [locals EXCEPT !.k = @ + 1]
    /\ UNCHANGED <<pc, received, solver_pc, observer_pc, options, idleProg>>

\* progress.rs lines 47-49: send fails once the receiver is dropped and
\* expect panics
PublishPanic ==
    /\ solver_pc = "solve"
    /\ locals.k < Len(locals.script)
    /\ options.show_progress /\ ~ReceiverAlive
    /\ solver_pc' = "panicked"
    /\ UNCHANGED <<pc, chan, sent, received, locals, observer_pc, options, idleProg>>

\* main.rs lines 155-161: solve returns and the solution is printed
PrintSolution ==
    /\ solver_pc = "solve"
    /\ locals.k = Len(locals.script)
    /\ locals' = [locals EXCEPT !.printed = TRUE]
    /\ solver_pc' = "send_done"
    /\ UNCHANGED <<pc, chan, sent, received, observer_pc, options, idleProg>>

\* main.rs lines 163-166: the driver's Done, sent on the channel itself
SendDone ==
    /\ solver_pc = "send_done"
    /\ ReceiverAlive
    /\ chan' = Append(chan, Done)
    /\ sent' = Append(sent, Done)
    /\ solver_pc' = "ended"
    /\ UNCHANGED <<pc, received, locals, observer_pc, options, idleProg>>

\* main.rs lines 164-166: send fails once the receiver is dropped and
\* unwrap panics
SendDonePanic ==
    /\ solver_pc = "send_done"
    /\ ~ReceiverAlive
    /\ solver_pc' = "panicked"
    /\ UNCHANGED <<pc, chan, sent, received, locals, observer_pc, options, idleProg>>

\* progress.rs lines 263-275: the window gives an event and is drawn
WindowNext ==
    /\ observer_pc = "window_next"
    /\ observer_pc' = "recv_timeout"
    /\ UNCHANGED <<pc, chan, sent, received, locals, solver_pc, options, idleProg>>

\* progress.rs line 263: the window is closed, run returns and in_channel
\* is dropped with the messages still in it
WindowClosed ==
    /\ observer_pc = "window_next"
    /\ observer_pc' = "ended"
    /\ chan' = <<>>
    /\ UNCHANGED <<pc, sent, received, locals, solver_pc, options, idleProg>>

\* progress.rs lines 278-280: recv_timeout gives the oldest message
Receive ==
    /\ observer_pc = "recv_timeout"
    /\ chan # <<>>
    /\ received' = Append(received, Head(chan))
    /\ chan' = Tail(chan)
    /\ locals' = [locals EXCEPT !.display = update(@, Head(chan))]
    /\ observer_pc' = "window_next"
    /\ UNCHANGED <<pc, sent, solver_pc, options, idleProg>>

\* progress.rs line 278: no message within RENDER_FRQ (or every sender
\* is gone): the Err is ignored
ReceiveTimeout ==
    /\ observer_pc = "recv_timeout"
    /\ chan = <<>>
    /\ locals' = [locals EXCEPT !.timed_out = TRUE]
    /\ observer_pc' = "window_next"
    /\ UNCHANGED <<pc, chan, sent, received, solver_pc, options, idleProg>>

\* main.rs line 170
Join1 ==
    /\ pc = "join1"
    /\ observer_pc = "ended"
    /\ pc' = "join2"
    /\ UNCHANGED <<chan, sent, received, locals, solver_pc, observer_pc, options, idleProg>>

\* main.rs line 171: expect panics when the solver thread panicked
Join2 ==
    /\ pc = "join2"
    /\ solver_pc \in {"ended", "panicked"}
    /\ pc' = IF solver_pc = "ended" THEN "exit" ELSE "panicked"
    /\ UNCHANGED <<chan, sent, received, locals, solver_pc, observer_pc, options, idleProg>>

NextProg ==
    \/ Spawn
    \/ Publish
    \/ PublishPanic
    \/ PrintSolution
    \/ SendDone
    \/ SendDonePanic
    \/ WindowNext
    \/ WindowClosed
    \/ Receive
    \/ ReceiveTimeout
    \/ Join1
    \/ Join2

SpecProg == InitProg /\ [][NextProg]_vars

\* number of Done messages in a sequence of messages
DoneCount(msgs) == Cardinality({k \in 1..Len(msgs) : msgs[k] = Done})

\* s is an initial part of t
IsPrefix(s, t) == Len(s) <= Len(t) /\ s = SubSeq(t, 1, Len(s))

\* C17: when the solver thread has ended, the channel has carried exactly
\* one Done and it was the last message sent, for every solver and for
\* both settings of show_progress
C17_ExactlyOneDoneAndLast ==
    solver_pc = "ended" =>
        /\ DoneCount(sent) = 1
        /\ sent[Len(sent)] = Done

C19_SolverSurvivesDeadObserver ==
    /\ solver_pc # "panicked"
    /\ (solver_pc = "ended" => locals.printed)

\* C20: once the observer has consumed Done it has left its receive loop
\* and its thread has ended
C20_DoneEndsObserver == DoneCount(received) > 0 => observer_pc = "ended"

\* the messages the solver has handed to send_progress so far
Published == SubSeq(locals.script, 1, locals.k)

\* C21: when solve has returned, the solver has published at least one
\* PathUpdate, for each solver the driver dispatches to
C21_PathUpdateBeforeReturn ==
    locals.printed =>
        \E k \in 1..Len(Published) : Published[k].type = "PathUpdate"

---------------------------------------------------------------------------
(* The TSPLIB reader and the driver's use of it (tsplib.rs, main.rs)       *)

\* a line is the sequence of its whitespace-separated tokens; a colon is
\* a token of its own
COORD_SECTION_KEY == "NODE_COORD_SECTION"
DISPLAY_DATA_SECTION_KEY == "DISPLAY_DATA_SECTION"
EOF_KEY == "EOF"

\* tokens f32::from_str accepts, with their values
NumberTokens == {"0", "1", "2", "3", "4", "1.5"}
NumVal(token) ==
    CASE token = "0" -> 0 [] token = "1" -> 1 [] token = "2" -> 2
      [] token = "3" -> 3 [] token = "4" -> 4

\* tokens usize::from_str accepts
UsizeTokens == NumberTokens \ {"1.5"}

\* tokens made of word characters only (\w+)
WordTokens == UsizeTokens \cup {"EOF", "eof", "NODE_COORD_SECTION", "TOUR_SECTION", "NAME", "X"}

\* str::to_uppercase on a token
to_uppercase(token) == IF token = "eof" THEN "EOF" ELSE token

\* tsplib.rs line 72: trim().to_uppercase()
normalise(line) == [k \in 1..Len(line) |-> to_uppercase(line[k])]

\* tsplib.rs lines 134-136: SECTION_START_MATCHER, ^\w+$
is_state_marker(line) == Len(line) = 1 /\ line[1] \in WordTokens

\* tsplib.rs line 19: KEY_VALUE_MATCHER, ^\w+\s*:\s*.+$
key_value_matches(line) ==
    Len(line) >= 3 /\ line[1] \in WordTokens /\ line[2] = ":"

\* tsplib.rs lines 158-165
starts_with_number(line) == Len(line) >= 1 /\ line[1] \in NumberTokens

\* TspReaderStates
START == [kind |-> "START"]
INSECTION(section_id) == [kind |-> "INSECTION", section_id |-> section_id]
OUTSECTION == [kind |-> "OUTSECTION"]
END == [kind |-> "END"]

\* tsplib.rs lines 138-156
next_state(state, line) ==
    IF line = <<EOF_KEY>> THEN END
    ELSE IF is_state_marker(line) THEN INSECTION(line[1])
    ELSE IF state.kind = "INSECTION" /\ ~starts_with_number(line) THEN OUTSECTION
    ELSE state

\* tsplib.rs lines 175-198: the id is unwrapped, a coordinate that is
\* not a number is an Err (the files below hold whole coordinates only)
coords_from_text(line) ==
    IF starts_with_number(line) THEN
        IF line[1] \notin UsizeTokens THEN Panic
        ELSE IF \E k \in 2..Len(line) : line[k] \notin NumberTokens THEN Err
        ELSE Ok(KDPoint(NumVal(line[1]),
                        [k \in 1..(Len(line) - 1) |-> NumVal(line[k + 1])]))
    ELSE Err

\* the lines a file is made of
FileLines ==
    {<<"NAME", ":", "X">>, <<"NODE_COORD_SECTION">>, <<"TOUR_SECTION">>, <<"eof">>,
     <<"1", "0", "0">>, <<"2", "3", "0">>, <<"1", "0", "X">>, <<"1.5", "0", "0">>, <<>>}

idleReader == <<dm, solution, bhkVars, cur_path, best_sol, options, auxVars>>

InitReader ==
    /\ \E len \in 0..RdMaxLines : \E lines \in SeqsOfLen(FileLines, len) :
          locals = [solver |-> "reader", lines |-> lines, line_no |-> 1,
                    state |-> START, metadata |-> {}]
    /\ pc = "rd_lines"
    /\ cities = <<>>
    /\ dm = NoDm
    /\ CallIdle /\ SolutionIdle /\ BhkIdle /\ AuxIdle
    /\ cur_path = <<>> /\ best_sol = NoBest /\ options = NoOptions

\* the line the loop of process_lines reads next
NextLine == normalise(locals.lines[locals.line_no])

\* tsplib.rs lines 75-77 and 103-105: a line read in state END ends the loop
RdBreak ==
    /\ pc = "rd_lines"
    /\ locals.line_no <= Len(locals.lines)
    /\ locals.state = END
    /\ locals' = [locals EXCEPT !.line_no = @ + 1]
    /\ pc' = "rd_end"
    /\ UNCHANGED <<cities, call, idleReader>>

\* tsplib.rs lines 80-83: a state marker changes the state
RdMarker ==
    /\ pc = "rd_lines"
    /\ locals.line_no <= Len(locals.lines)
    /\ locals.state # END
    /\ is_state_marker(NextLine)
    /\ locals' = [locals EXCEPT !.line_no = @ + 1,
                                !.state = next_state(locals.state, NextLine)]
    /\ UNCHANGED <<pc, cities, call, idleReader>>

\* tsplib.rs lines 87-92: a line of the header
RdMetadata ==
    /\ pc = "rd_lines"
    /\ locals.line_no <= Len(locals.lines)
    /\ locals.state = START
    /\ ~is_state_marker(NextLine)
    /\ IF key_value_matches(NextLine)
       THEN /\ locals' = [locals EXCEPT !.line_no = @ + 1,
                                        !.metadata = @ \cup {NextLine[1]}]
            /\ UNCHANGED <<pc, call>>
       ELSE /\ locals' = [locals EXCEPT !.line_no = @ + 1]
            /\ call' = [op |-> "process_lines", args |-> <<locals.lines>>, ret |-> Err]
            /\ pc' = "rd_returned"
    /\ UNCHANGED <<cities, idleReader>>

\* tsplib.rs lines 94-102: a line of a coordinate section
RdCoords ==
    /\ pc = "rd_lines"
    /\ locals.line_no <= Len(locals.lines)
    /\ locals.state.kind = "INSECTION"
    /\ locals.state.section_id \in {COORD_SECTION_KEY, DISPLAY_DATA_SECTION_KEY}
    /\ ~is_state_marker(NextLine)
    /\ LET res == coords_from_text(NextLine) IN
        /\ locals' = [locals EXCEPT !.line_no = @ + 1]
        /\ CASE res.kind = "Ok" ->
                    /\ cities' = Append(cities, res.val)
                    /\ UNCHANGED <<pc, call>>
             [] res.kind = "Err" ->
                    /\ call' = [op |-> "process_lines", args |-> <<locals.lines>>, ret |-> Err]
                    /\ pc' = "rd_returned"
                    /\ UNCHANGED cities
             [] res.kind = "Panic" ->
                    /\ pc' = "panicked"
                    /\ UNCHANGED <<cities, call>>
    /\ UNCHANGED idleReader

\* tsplib.rs line 106: a line of another section is skipped
RdSkip ==
    /\ pc = "rd_lines"
    /\ locals.line_no <= Len(locals.lines)
    /\ locals.state.kind = "INSECTION"
    /\ locals.state.section_id \notin {COORD_SECTION_KEY, DISPLAY_DATA_SECTION_KEY}
    /\ ~is_state_marker(NextLine)
    /\ locals' = [locals EXCEPT !.line_no = @ + 1]
    /\ UNCHANGED <<pc, cities, call, idleReader>>

\* tsplib.rs line 68: no line is left
RdEndOfInput ==
    /\ pc = "rd_lines"
    /\ locals.line_no > Len(locals.lines)
    /\ pc' = "rd_end"
    /\ UNCHANGED <<cities, locals, call, idleReader>>

\* tsplib.rs lines 110-131: Err without a city, else the TspLibData
RdReturn ==
    /\ pc = "rd_end"
    /\ call' = [op |-> "process_lines", args |-> <<locals.lines>>,
                ret |-> IF cities = <<>> THEN Err ELSE Ok(cities)]
    /\ pc' = "rd_returned"
    /\ UNCHANGED <<cities, locals, idleReader>>

\* main.rs lines 206-231: an Err of the reader ends the process with code 1
DriverExit ==
    /\ pc = "rd_returned"
    /\ call.ret.kind = "Err"
    /\ pc' = "exit_1"
    /\ UNCHANGED <<cities, locals, call, idleReader>>

\* main.rs lines 121-167: the solver is started on the cities read
DriverSolve ==
    /\ pc = "rd_returned"
    /\ call.ret.kind = "Ok"
    /\ pc' = "solving"
    /\ UNCHANGED <<cities, locals, call, idleReader>>

NextReader ==
    \/ RdBreak
    \/ RdMarker
    \/ RdMetadata
    \/ RdCoords
    \/ RdSkip
    \/ RdEndOfInput
    \/ RdReturn
    \/ DriverExit
    \/ DriverSolve

SpecReader == InitReader /\ [][NextReader]_vars

\* C22: the reader returns an error whenever it read fewer than 2 points,
\* and no solver is started on fewer than 2 points
C22_ReaderRejectsFewerThanTwoPoints ==
    /\ (pc = "rd_returned" /\ Len(cities) < 2) => call.ret.kind = "Err"
    /\ pc = "solving" => Len(cities) >= 2

---------------------------------------------------------------------------
(* solve_ga on its own, from the population from_cities hands to it        *)
(* (genetic_algorithm.rs)                                                  *)

\* the point lists: the rectangle's corners in crossing order, three of
\* them, and two points on one place (every tour has length 0)
GaCities ==
    {[k \in 1..n |-> KDPoint(k - 1, Zigzag[k])] : n \in 3..GaSoloMaxN}
    \cup {[k \in 1..2 |-> KDPoint(k - 1, <<0, 0>>)]}

\* two of the routes random_successor gives from_cities
GaSeedRoutes(cs) ==
    LET initial_route == RouteFromCities(cs)
    IN {swap_cities(initial_route, 0, Len(cs) - 1),
        swap_cities(initial_route, 1, Len(cs) - 1)}
       \cap random_successor(initial_route)

\* lines 174-186: populations from_cities can build, n individuals each
\* with the fitness of its route
GaPopulations(cs) ==
    LET m == from_cities(cs)
    IN {AddAll(PopulationWithCapacity(Len(cs)),
               [k \in 1..Len(cs) |-> TspGenotype(fitness_fn(m, routes[k]), routes[k])]) :
            routes \in SeqsOfLen(GaSeedRoutes(cs), Len(cs))}

\* options of a run that breeds at most GaMaxBreeds times per generation
GaOptions(cs) ==
    {[kind |-> "Some", epochs |-> e, n_elite |-> k, mutation_probability |-> m] :
        e \in 0..GaSoloMaxEpochs,
        k \in {k \in 0..Len(cs) : (Len(cs) \div 2) - k <= GaMaxBreeds},
        m \in {Rat(0, 1), Rat(1, 1)}}

\* lines 23-33: solve_ga is entered
InitGa ==
    /\ cities \in GaCities
    /\ options \in GaOptions(cities)
    /\ dm = from_cities(cities)
    /\ \E population \in GaPopulations(cities) :
          locals = [solver |-> "genetic_algorithm",
                    population_size |-> Len(population.individuals),
                    current_population |-> population,
                    new_population |-> PopulationWithCapacity(0),
                    epoch |-> 0, k |-> 0]
    /\ pc = "ga_epoch"
    /\ CallIdle /\ SolutionIdle /\ BhkIdle /\ AuxIdle
    /\ cur_path = <<>> /\ best_sol = NoBest

NextGa ==
    \/ GaEpochBegin
    \/ GaBreed
    \/ GaSelectionPanic
    \/ GaEpochEnd
    \/ GaReturn

SpecGa == InitGa /\ [][NextGa]_vars

\* C24: at the start of every generation and when solve_ga returns the
\* population holds exactly N individuals, N the number of cities
C24_PopulationSizeIsN ==
    (locals.solver = "genetic_algorithm" /\ pc \in {"ga_epoch", "done"}) =>
        Len(locals.current_population.individuals) = Len(cities)

\* every individual of the population carries the fitness of its genotype
FitnessIsCurrent(population) ==
    \A k \in 1..Len(population.individuals) :
        population.individuals[k].fitness
            = fitness_fn(dm, population.individuals[k].genotype)

\* C25: every individual's stored fitness is that of its genotype, also
\* after a mutation, and the route returned is one of the shortest tours
\* of the final population
C25_FitnessMatchesGenotype ==
    locals.solver = "genetic_algorithm" =>
        /\ "current_population" \in DOMAIN locals =>
            /\ FitnessIsCurrent(locals.current_population)
            /\ FitnessIsCurrent(locals.new_population)
        /\ pc = "done" =>
            \A k \in 1..Len(locals.current_population.individuals) :
                Expect(tour_length(dm, solution.route))
                    <= Expect(tour_length(dm,
                              locals.current_population.individuals[k].genotype))

---------------------------------------------------------------------------
(* The tabu list on its own (tabu_search.rs)                               *)

idleTabuList == <<cities, dmVars, solution, bhkVars, cur_path, best_sol, options, auxVars>>

\* the routes that are added: the orders of three cities
TabuRoutes == Perms({0, 1, 2})

\* TabuList::new; added remembers every route handed to add, oldest first
InitTabuList ==
    /\ locals \in {[solver |-> "tabu_list", capacity |-> capacity, items |-> <<>>,
                    added |-> <<>>] : capacity \in 1..TabuMaxCapacity}
    /\ pc = "tabu_list"
    /\ cities = <<>>
    /\ dm = NoDm
    /\ CallIdle /\ SolutionIdle /\ BhkIdle /\ AuxIdle
    /\ cur_path = <<>> /\ best_sol = NoBest /\ options = NoOptions

\* TabuList::add
TabuAdd ==
    /\ pc = "tabu_list"
    /\ Len(locals.added) < TabuMaxAdds
    /\ \E route \in TabuRoutes :
          locals' = [locals EXCEPT
                        !.items = TabuListAdd(@, locals.capacity, route),
                        !.added = Append(@, route)]
    /\ UNCHANGED <<pc, idleTabuList>>

NextTabuList == TabuAdd

SpecTabuList == InitTabuList /\ [][NextTabuList]_vars

\* the k routes added last, newest first
MostRecent(added, k) == Reverse(SubSeq(added, Len(added) - k + 1, Len(added)))

\* C27: after any adds the tabu list of capacity N holds at most N routes,
\* and they are the min(N, number of adds) routes added last: a full list
\* loses its oldest route and no other
C27_TabuListKeepsMostRecent ==
    locals.solver = "tabu_list" =>
        /\ Len(locals.items) <= locals.capacity
        /\ locals.items = MostRecent(locals.added, Min(locals.capacity, Len(locals.added)))

\* a list of capacity 2 after more adds than it can hold, of routes that
\* all differ: only the last two are left
C27_Witness ==
    /\ locals.solver = "tabu_list"
    /\ locals.capacity = 2
    /\ Len(locals.added) = TabuMaxAdds
    /\ Cardinality(SeqToSet(locals.added)) = Len(locals.added)
    /\ locals.items = <<locals.added[Len(locals.added)], locals.added[Len(locals.added) - 1]>>
===========================================================================
